---- MODULE Spec2Model ----
(***************************************************************************)
(* Onboarding form engine: the corporation-number validation cache and     *)
(* request deduplicator (features/onboarding/schemas/onboarding.schema)    *)
(* and the form orchestration hook (components/form/hooks                  *)
(* use-configurable-form) that drives validation and submission.           *)
(*                                                                         *)
(* Strings are sequences of one-character strings, so that trimming,       *)
(* length and digit tests are computed as the code computes them.          *)
(* One action is one event-loop task: the event handler or network         *)
(* continuation together with every promise continuation it unblocks.      *)
(***************************************************************************)
EXTENDS Integers, Sequences, FiniteSets, TLC

(* ---------------- bounds of the model ---------------- *)
\* collaborator (network) checks started in one behaviour
MaxRequests == 3
\* independent callers of the cached validator (cache specification)
NumCallers == 3
\* corporation checks the form starts in one behaviour
MaxChecks == 2
\* synchronously validated fields of the configuration kept in the record
NumTextFields == 1
\* submit events in one behaviour of the form
MaxSubmits == 2
\* resolver runs that may await a corporation check at the same time
MaxValidations == 2
\* length of the strings enumerated at the submit boundary
MaxSanLen == 3
\* length of the run of digits that ends the phone values enumerated
MaxPhoneBody == 11
\* the longest run of digits in a value given to a mask, and the most digits
\* typed into one
MaxMaskBody == 17
MaxTyped == 12
\* registerMaskPreset calls in one run
MaxRegistrations == 3

(* ---------------- program constants ---------------- *)
CORP_NUMBER_LENGTH == 9
MAX_NAME_LENGTH == 50

Digits == {"0", "1", "2", "3", "4", "5", "6", "7", "8", "9"}

\* two well-formed corporation numbers (826417395 is one the API accepts)
CorpA == <<"8", "2", "6", "4", "1", "7", "3", "9", "5">>
CorpB == <<"0", "0", "0", "0", "0", "0", "0", "0", "0">>
Keys == {CorpA, CorpB}
Callers == 1..NumCallers

\* what the transport can answer to GET /corporation-number/:n
Responses == {"networkError", "invalidJson", "schemaMismatch", "validTrue", "validFalse"}

VARIABLES
  corporationValidationCache, \* Map<string, boolean>
  pendingValidations,         \* Map<string, Promise<boolean>> (promise = index in promises)
  promises,                   \* the validation promises created so far
  network,                    \* collaborator requests sent and not yet answered
  collabCalls,                \* history: collaborator invocations per key
  settledCount,               \* history: collaborator settlements per key
  callers,                    \* cache specification: the calls of each caller
  values,                     \* form record (react-hook-form _formValues)
  errors,                     \* formState.errors: field name -> error key
  validatingFields,           \* formState.validatingFields
  isSubmitted,                \* formState.isSubmitted
  validations,                \* resolver runs awaiting a corporation check
  submitMutation,             \* the mutation the useMutation observer observes
  submissions,                \* onSubmit calls that have not settled
  previousValuesRef,          \* previousValuesRef.current
  hook,                       \* what the hook returned at the last render
  triggers,                   \* history: outcome of the validation of each submit
  invocations,                \* history: the onSubmit calls, in order
  arg,                        \* function specifications: the argument of the call
  ret,                        \* function specifications: what the call returned
  maskRegistry                \* masks: the maskRegistry object

cacheVars == <<corporationValidationCache, pendingValidations, promises, network,
               collabCalls, settledCount>>
formVars == <<values, errors, validatingFields, isSubmitted, validations,
              submitMutation, submissions, previousValuesRef, hook, triggers,
              invocations>>
vars == <<corporationValidationCache, pendingValidations, promises, network,
          collabCalls, settledCount, callers, values, errors, validatingFields,
          isSubmitted, validations, submitMutation, submissions,
          previousValuesRef, hook, triggers, invocations, arg, ret, maskRegistry>>
fnVars == <<arg, ret, maskRegistry>>

\* no function call under way
NoCall == [op |-> "none"]

(* ---------------- maps ---------------- *)
MapSet(m, k, v) == [x \in (DOMAIN m) \cup {k} |-> IF x = k THEN v ELSE m[x]]
MapDelete(m, k) == [x \in (DOMAIN m) \ {k} |-> m[x]]
EmptyMap == [x \in {} |-> TRUE]

(* ---------------- the corporation-check collaborator ---------------- *)
\* validateCorporationNumber: fetch, response.json(), schema.parse(data);
\* any of the three can throw, the status code is ignored.
validateCorporationNumber(resp) ==
  CASE resp = "validTrue"  -> [threw |-> FALSE, valid |-> TRUE]
    [] resp = "validFalse" -> [threw |-> FALSE, valid |-> FALSE]
    [] OTHER               -> [threw |-> TRUE,  valid |-> FALSE]

(* ---------------- validateCorporationWithCache ---------------- *)
CacheHas(value) == value \in DOMAIN corporationValidationCache

PendingHasMutant(value) == FALSE
PendingHas(value) == value \in DOMAIN pendingValidations

\* which of the three branches a call takes
CallBranchMutant(value) ==
  IF PendingHas(value) THEN "join" ELSE "start"
CallBranch(value) ==
  IF CacheHas(value) THEN "cached"
  ELSE IF PendingHas(value) THEN "join"
  ELSE "start"

\* the promise the call returns (0: the cached boolean, no promise of the map)
CallPromise(value) ==
  CASE CallBranch(value) = "cached" -> 0
    [] CallBranch(value) = "join"   -> pendingValidations[value]
    [] OTHER                        -> Len(promises) + 1

\* the state change of one call: only the "start" branch changes anything;
\* it invokes the collaborator and records the promise as pending.
validateCorporationWithCacheMutant(value) ==
  IF CallBranch(value) = "start"
  THEN /\ Len(promises) < MaxRequests
       /\ promises' = Append(promises, [key |-> value, settled |-> FALSE,
                                        value |-> FALSE, threw |-> FALSE])
       /\ network' = network \cup {Len(promises) + 1}
       /\ collabCalls' = [collabCalls EXCEPT ![value] = @ + 1]
       /\ UNCHANGED <<corporationValidationCache, pendingValidations, settledCount>>
  ELSE UNCHANGED cacheVars
validateCorporationWithCache(value) ==
  IF CallBranch(value) = "start"
  THEN /\ Len(promises) < MaxRequests
       /\ promises' = Append(promises, [key |-> value, settled |-> FALSE,
                                        value |-> FALSE, threw |-> FALSE])
       /\ network' = network \cup {Len(promises) + 1}
       /\ pendingValidations' = MapSet(pendingValidations, value, Len(promises) + 1)
       /\ collabCalls' = [collabCalls EXCEPT ![value] = @ + 1]
       /\ UNCHANGED <<corporationValidationCache, settledCount>>
  ELSE UNCHANGED cacheVars

\* the cache after the collaborator answered: only a successful check is stored
CacheAfterMutant(value, res) == MapSet(corporationValidationCache, value, res.valid)
CacheAfter(value, res) ==
  IF res.threw THEN corporationValidationCache
  ELSE MapSet(corporationValidationCache, value, res.valid)

\* the finally block: the pending marker of the key is removed whatever happened
PendingAfterMutant(value, res) ==
  IF res.threw THEN pendingValidations ELSE MapDelete(pendingValidations, value)
PendingAfter(value, res) == MapDelete(pendingValidations, value)

\* the continuation of the validation promise p once the collaborator answers resp
SettleValidation(p, resp) ==
  LET value == promises[p].key
      res == validateCorporationNumber(resp)
  IN /\ p \in network
     /\ network' = network \ {p}
     /\ corporationValidationCache' = CacheAfter(value, res)
     /\ pendingValidations' = PendingAfter(value, res)
     /\ promises' = [promises EXCEPT ![p] = [key |-> value, settled |-> TRUE,
                         value |-> (~res.threw /\ res.valid), threw |-> res.threw]]
     /\ settledCount' = [settledCount EXCEPT ![value] = @ + 1]
     /\ UNCHANGED collabCalls

(* ---------------- initial state of the cache ---------------- *)
IdleCaller == [st |-> "idle", key |-> CorpA, promise |-> 0, result |-> FALSE,
               hit |-> FALSE, gen |-> 0, inv |-> 0]

CacheInit ==
  /\ corporationValidationCache = EmptyMap
  /\ pendingValidations = EmptyMap
  /\ promises = <<>>
  /\ network = {}
  /\ collabCalls = [k \in Keys |-> 0]
  /\ settledCount = [k \in Keys |-> 0]

(* ---------------- strings ---------------- *)
Whitespace == {" "}

RECURSIVE TrimStart(_)
TrimStart(s) ==
  IF s # <<>> /\ Head(s) \in Whitespace THEN TrimStart(Tail(s)) ELSE s

RECURSIVE TrimEnd(_)
TrimEnd(s) ==
  IF s # <<>> /\ s[Len(s)] \in Whitespace
  THEN TrimEnd(SubSeq(s, 1, Len(s) - 1)) ELSE s

\* String.prototype.trim
Trim(s) == TrimEnd(TrimStart(s))

\* value.replace(/\D/g, '')
RECURSIVE DigitsOf(_)
DigitsOf(s) ==
  IF s = <<>> THEN <<>>
  ELSE IF Head(s) \in Digits THEN <<Head(s)>> \o DigitsOf(Tail(s))
  ELSE DigitsOf(Tail(s))

\* corporationNumberRegex.test(value): ^\d{9}$
corporationNumberRegex(value) ==
  Len(value) = CORP_NUMBER_LENGTH /\ \A i \in 1..Len(value) : value[i] \in Digits

(* ---------------- isValidCanadianPhone ---------------- *)
isValidCanadianPhoneMutant(value) ==
  LET digits == DigitsOf(value)
      withCountry == Len(digits) = 11 /\ digits[1] = "1"
      phoneDigits == IF withCountry THEN Tail(digits) ELSE digits
  IN IF ~(withCountry \/ Len(digits) = 10) THEN FALSE
     ELSE phoneDigits[1] \in {"1", "2", "3", "4", "5", "6", "7", "8", "9"}
isValidCanadianPhone(value) ==
  LET digits == DigitsOf(value)
      withCountry == Len(digits) = 11 /\ digits[1] = "1"
      phoneDigits == IF withCountry THEN Tail(digits) ELSE digits
  IN IF ~(withCountry \/ Len(digits) = 10) THEN FALSE
     ELSE phoneDigits[1] \in {"2", "3", "4", "5", "6", "7", "8", "9"}

(* ---------------- masks: the maskRegistry object ---------------- *)
\* the keys the object literal is written with
BuiltInPresets == {"phone-ca", "credit-card", "postal-code-ca", "date"}

\* an optional property: present with a value, or undefined
Some(v) == [defined |-> TRUE, value |-> v]
None == [defined |-> FALSE]

\* the maxLength of each entry
MaxLengthOf(mask) ==
  CASE mask = "phone-ca" -> 11
    [] mask = "credit-card" -> 16
    [] mask = "postal-code-ca" -> 6
    [] mask = "date" -> 8

\* the placeholder of each entry
PlaceholderOf(mask) ==
  CASE mask = "phone-ca" -> "+1 (XXX) XXX-XXXX"
    [] mask = "credit-card" -> "XXXX XXXX XXXX XXXX"
    [] mask = "postal-code-ca" -> "X9X 9X9"
    [] mask = "date" -> "MM/DD/YYYY"

\* a MaskRegistryEntry: format and parse name the two functions
BuiltInEntry(mask) ==
  [format |-> mask, parse |-> mask,
   placeholder |-> Some(PlaceholderOf(mask)), maxLength |-> Some(MaxLengthOf(mask))]

\* an object: its own properties and its prototype, which is Object.prototype
\* for an object literal
ObjectPrototype == [proto |-> "Object.prototype"]
RegistryInit ==
  maskRegistry = [own |-> [mask \in BuiltInPresets |-> BuiltInEntry(mask)],
                  prototype |-> ObjectPrototype]

(* ---------------- the form configuration ---------------- *)
\* The configuration has three fields validated synchronously and the
\* corporation number validated through the collaborator. The engine handles
\* every field by name in the same way, so the record of the model keeps the
\* first NumTextFields synchronous fields next to the corporation number.
TextFields == <<"firstName", "lastName", "phone">>
Fields == {TextFields[i] : i \in 1..NumTextFields} \cup {"corporationNumber"}
defaultValues == [f \in Fields |-> <<>>]

\* the values the inputs can put into each field in the model
PhoneOk == <<"+", "1", "3", "0", "6", "2", "7", "7", "6", "1", "0", "3">>
FieldInputs(f) ==
  CASE f = "firstName" -> {<<>>, <<" ">>, <<"J", "o">>}
    [] f = "lastName"  -> {<<>>, <<"D", "o", "e">>}
    [] f = "phone"     -> {<<>>, PhoneOk}
    [] OTHER           -> {<<>>, CorpA, CorpB}

(* ---------------- onboardingSchema ---------------- *)
\* first issue of the synchronous checks of a field ("" when there is none);
\* every check sees the trimmed value, and the resolver keeps the first issue.
SyncIssueMutant(f, v) ==
  LET t == Trim(v) IN
  CASE f = "firstName" ->
         IF Len(t) < 1 THEN "onboarding.errors.firstNameRequired"
         ELSE IF Len(t) > MAX_NAME_LENGTH THEN "onboarding.errors.maxLength"
         ELSE ""
    [] f = "lastName" ->
         IF Len(t) < 1 THEN "onboarding.errors.lastNameRequired"
         ELSE IF Len(t) > MAX_NAME_LENGTH THEN "onboarding.errors.maxLength"
         ELSE ""
    [] f = "phone" ->
         IF Len(t) < 1 THEN "onboarding.errors.phoneRequired"
         ELSE IF ~isValidCanadianPhone(t) THEN "onboarding.errors.invalidPhone"
         ELSE ""
    [] OTHER ->
         IF Len(t) < 1 THEN "onboarding.errors.corporationNumberRequired"
         ELSE IF ~corporationNumberRegex(t) THEN "onboarding.errors.corporationDigitsOnly"
         ELSE ""
SyncIssueUntrimmedMutant(f, v) ==
  LET t == v IN
  CASE f = "firstName" ->
         IF Len(t) < 1 THEN "onboarding.errors.firstNameRequired"
         ELSE IF Len(t) > MAX_NAME_LENGTH THEN "onboarding.errors.maxLength"
         ELSE ""
    [] f = "lastName" ->
         IF Len(t) < 1 THEN "onboarding.errors.lastNameRequired"
         ELSE IF Len(t) > MAX_NAME_LENGTH THEN "onboarding.errors.maxLength"
         ELSE ""
    [] f = "phone" ->
         IF Len(t) < 1 THEN "onboarding.errors.phoneRequired"
         ELSE IF ~isValidCanadianPhone(t) THEN "onboarding.errors.invalidPhone"
         ELSE ""
    [] OTHER ->
         IF Len(t) < 1 THEN "onboarding.errors.corporationNumberRequired"
         ELSE IF Len(t) # CORP_NUMBER_LENGTH THEN "onboarding.errors.corporationLength"
         ELSE IF ~corporationNumberRegex(t) THEN "onboarding.errors.corporationDigitsOnly"
         ELSE ""
SyncIssue(f, v) ==
  LET t == Trim(v) IN
  CASE f = "firstName" ->
         IF Len(t) < 1 THEN "onboarding.errors.firstNameRequired"
         ELSE IF Len(t) > MAX_NAME_LENGTH THEN "onboarding.errors.maxLength"
         ELSE ""
    [] f = "lastName" ->
         IF Len(t) < 1 THEN "onboarding.errors.lastNameRequired"
         ELSE IF Len(t) > MAX_NAME_LENGTH THEN "onboarding.errors.maxLength"
         ELSE ""
    [] f = "phone" ->
         IF Len(t) < 1 THEN "onboarding.errors.phoneRequired"
         ELSE IF ~isValidCanadianPhone(t) THEN "onboarding.errors.invalidPhone"
         ELSE ""
    [] OTHER ->
         IF Len(t) < 1 THEN "onboarding.errors.corporationNumberRequired"
         ELSE IF Len(t) # CORP_NUMBER_LENGTH THEN "onboarding.errors.corporationLength"
         ELSE IF ~corporationNumberRegex(t) THEN "onboarding.errors.corporationDigitsOnly"
         ELSE ""

\* the key the async refinement checks through the cache
CheckKey(rec) == Trim(rec["corporationNumber"])

\* the guard of the async refinement: only a well-formed value is checked
NeedsCheckMutant(rec) == Len(CheckKey(rec)) = CORP_NUMBER_LENGTH
NeedsCheck(rec) ==
  ~(Len(CheckKey(rec)) # CORP_NUMBER_LENGTH \/ ~corporationNumberRegex(CheckKey(rec)))

\* the issue of a field given the outcome of the asynchronous refinement
FieldIssue(rec, f, checkResult) ==
  IF SyncIssue(f, rec[f]) # "" THEN SyncIssue(f, rec[f])
  ELSE IF f = "corporationNumber" /\ NeedsCheck(rec) /\ ~checkResult
       THEN "onboarding.errors.invalidCorporation"
  ELSE ""

\* resolver result: the errors of the record (a map over the failing fields)
onboardingSchema(rec, checkResult) ==
  [f \in {g \in DOMAIN rec : FieldIssue(rec, g, checkResult) # ""} |->
     FieldIssue(rec, f, checkResult)]

\* resolver result: the parsed values (each string trimmed)
ParsedValues(rec) == [f \in DOMAIN rec |-> Trim(rec[f])]

(* ---------------- sanitizeFormData ---------------- *)
\* A JavaScript value of a record handed to the submit boundary: its type
\* (typeof) and, for a string, its characters; a value of another type is
\* written by its literal.
JsString(str) == [type |-> "string", v |-> str]
JsNumber(literal) == [type |-> "number", v |-> literal]
JsBoolean(literal) == [type |-> "boolean", v |-> literal]
AsJs(rec) == [key \in DOMAIN rec |-> JsString(rec[key])]
StringsOf(data) == [key \in DOMAIN data |-> data[key].v]

LowerLetters == <<"a", "b", "c", "d", "e", "f", "g", "h", "i", "j", "k", "l", "m",
                  "n", "o", "p", "q", "r", "s", "t", "u", "v", "w", "x", "y", "z">>
UpperLetters == <<"A", "B", "C", "D", "E", "F", "G", "H", "I", "J", "K", "L", "M",
                  "N", "O", "P", "Q", "R", "S", "T", "U", "V", "W", "X", "Y", "Z">>
IsAlpha(c) == \E n \in DOMAIN LowerLetters : c = LowerLetters[n] \/ c = UpperLetters[n]
ToLower(c) ==
  IF \E n \in DOMAIN UpperLetters : c = UpperLetters[n]
  THEN LowerLetters[CHOOSE n \in DOMAIN UpperLetters : c = UpperLetters[n]]
  ELSE c

\* elements whose content goes with them when they are removed
ForbidContents == {<<"s", "c", "r", "i", "p", "t">>, <<"s", "t", "y", "l", "e">>}

\* s begins with "</" and the name, whatever the case of its letters
ClosesRaw(s, name) ==
  /\ Len(s) >= Len(name) + 2
  /\ s[1] = "<" /\ s[2] = "/"
  /\ \A n \in DOMAIN name : ToLower(s[n + 2]) = name[n]
  /\ Len(s) > Len(name) + 2 => s[Len(name) + 3] \in Whitespace \cup {"/", ">"}

\* how text is written back into markup
Escaped(c) ==
  CASE c = "<" -> <<"&", "l", "t", ";">>
    [] c = ">" -> <<"&", "g", "t", ";">>
    [] c = "&" -> <<"&", "a", "m", "p", ";">>
    [] OTHER   -> <<c>>

\* DOMPurify.sanitize(input, {ALLOWED_TAGS: []}): the input is parsed as HTML,
\* every element and comment is removed, the text of a removed element is
\* kept unless the element is a script or style, and the text left is
\* written back as markup. mode is the state of the tokenizer: "data",
\* "name" (in a tag name), "attrs" (in a tag, after its name), "comment", or
\* "raw" (in a script or style element). Attribute values with quotes and
\* character references are outside the alphabet of the inputs.
RECURSIVE Purify(_, _, _, _)
Purify(s, mode, name, closing) ==
  IF s = <<>> THEN <<>>
  ELSE LET c == Head(s)
           afterTag == IF ~closing /\ name \in ForbidContents THEN "raw" ELSE "data"
       IN
    CASE mode = "data" ->
           IF c # "<" THEN Escaped(c) \o Purify(Tail(s), "data", <<>>, FALSE)
           ELSE IF Len(s) = 1 THEN Escaped(c)
           ELSE IF IsAlpha(s[2]) THEN Purify(Tail(s), "name", <<>>, FALSE)
           ELSE IF s[2] \in {"!", "?"} THEN Purify(Tail(s), "comment", <<>>, FALSE)
           ELSE IF s[2] # "/" THEN Escaped(c) \o Purify(Tail(s), "data", <<>>, FALSE)
           ELSE IF Len(s) = 2 THEN Escaped(c) \o <<"/">>
           ELSE IF IsAlpha(s[3]) THEN Purify(Tail(Tail(s)), "name", <<>>, TRUE)
           ELSE IF s[3] = ">" THEN Purify(Tail(Tail(Tail(s))), "data", <<>>, FALSE)
           ELSE Purify(Tail(Tail(s)), "comment", <<>>, FALSE)
      [] mode = "name" ->
           IF c = ">" THEN Purify(Tail(s), afterTag, name, FALSE)
           ELSE IF c \in Whitespace \cup {"/"} THEN Purify(Tail(s), "attrs", name, closing)
           ELSE Purify(Tail(s), "name", Append(name, ToLower(c)), closing)
      [] mode = "attrs" ->
           IF c = ">" THEN Purify(Tail(s), afterTag, name, FALSE)
           ELSE Purify(Tail(s), "attrs", name, closing)
      [] mode = "comment" ->
           IF c = ">" THEN Purify(Tail(s), "data", <<>>, FALSE)
           ELSE Purify(Tail(s), "comment", <<>>, FALSE)
      [] OTHER ->
           IF ClosesRaw(s, name)
           THEN Purify(SubSeq(s, Len(name) + 3, Len(s)), "attrs", name, TRUE)
           ELSE Purify(Tail(s), "raw", name, FALSE)

\* sanitizeInput
sanitizeInput(input) == Purify(input, "data", <<>>, FALSE)

\* sanitizeFormData: the own keys of the record are kept, the string values
\* are sanitized, the values of another type are kept as they are
sanitizeFormDataMutant(data) ==
  [key \in DOMAIN data |->
     IF data[key].type = "string" /\ key # "age"
     THEN JsString(sanitizeInput(data[key].v)) ELSE data[key]]
sanitizeFormData(data) ==
  [key \in DOMAIN data |->
     IF data[key].type = "string" THEN JsString(sanitizeInput(data[key].v))
     ELSE data[key]]

(* ---------------- useConfigurableForm: the form engine ---------------- *)
\* What useForm({resolver, defaultValues, mode: 'onBlur'}) and useMutation do
\* with the options the hook passes them:
\*  - a field is validated on blur until the first submit has finished and on
\*    change afterwards; every run calls the resolver on the whole record as
\*    the fields hold it when the run starts;
\*  - a run marks its field names (a submit run: every field) in
\*    validatingFields when it starts and removes them when it finishes;
\*  - a field run drops its result when the field no longer holds the value
\*    of the event; a submit run installs its errors as they are, and calls
\*    the submit callback with the parsed values when there is none;
\*  - mutateAsync creates a new mutation that the observer follows from then
\*    on; onSuccess runs for every mutation, the flags isPending, isSuccess
\*    and error are those of the mutation the observer follows.
\* The submit event reaches handleSubmit through the form element, whose
\* submit button carries disabled = isSubmitDisabled; the inputs are never
\* disabled.
\*
\* The engine state threaded through the continuations of one task.
FormState ==
  [values |-> values, errors |-> errors, validatingFields |-> validatingFields,
   isSubmitted |-> isSubmitted, validations |-> validations,
   submitMutation |-> submitMutation, submissions |-> submissions,
   triggers |-> triggers, invocations |-> invocations]

AnyFieldEmpty(vals) == \E f \in Fields : Len(Trim(vals[f])) = 0

\* submitError is null (NoError) or the error object an invocation of onSubmit
\* rejected with; the object invocation i rejects with is named by i, and the
\* mutationFn lets it through as it is
NoError == 0
ThrownBy(i) == i

\* submitMutation.mutateAsync(data): a new mutation replaces the observed one,
\* its mutationFn sanitizes the data and calls onSubmit.
\* mutateAsync that leaves the error of the mutation before in place
mutateAsyncMutant(S, trig, data) ==
  [S EXCEPT
     !.invocations = Append(@, [trigger |-> trig,
                                data |-> StringsOf(sanitizeFormData(AsJs(data))),
                                busy |-> S.submissions # {},
                                liveError |-> DOMAIN S.errors # {},
                                liveEmpty |-> AnyFieldEmpty(S.values),
                                liveValidating |-> S.validations # <<>>,
                                edited |-> FALSE,
                                outcome |-> "pending"]),
     !.submissions = @ \cup {Len(S.invocations) + 1},
     !.submitMutation = [status |-> "pending", current |-> Len(S.invocations) + 1,
                         error |-> S.submitMutation.error]]

mutateAsync(S, trig, data) ==
  [S EXCEPT
     !.invocations = Append(@, [trigger |-> trig,
                                data |-> StringsOf(sanitizeFormData(AsJs(data))),
                                busy |-> S.submissions # {},
                                liveError |-> DOMAIN S.errors # {},
                                liveEmpty |-> AnyFieldEmpty(S.values),
                                liveValidating |-> S.validations # <<>>,
                                edited |-> FALSE,
                                outcome |-> "pending"]),
     !.submissions = @ \cup {Len(S.invocations) + 1},
     !.submitMutation = [status |-> "pending", current |-> Len(S.invocations) + 1,
                         error |-> NoError]]

\* what form.handleSubmit does once the resolver has answered
SubmitValidatedMutant(S, v, errs) ==
  mutateAsync([S EXCEPT !.errors = errs, !.triggers[v.trigger] = "valid"],
              v.trigger, ParsedValues(v.input))
SubmitValidated(S, v, errs) ==
  IF DOMAIN errs = {}
  THEN mutateAsync([S EXCEPT !.errors = errs, !.triggers[v.trigger] = "valid"],
                   v.trigger, ParsedValues(v.input))
  ELSE [S EXCEPT !.errors = errs, !.triggers[v.trigger] = "invalid",
                 !.isSubmitted = TRUE]

\* what the field event handler does once the resolver has answered: the
\* result is dropped when the field no longer holds the value of the event
FieldValidated(S, v, errs) ==
  IF v.eventValue = S.values[v.name]
  THEN [S EXCEPT !.errors = IF v.name \in DOMAIN errs
                            THEN MapSet(@, v.name, errs[v.name])
                            ELSE MapDelete(@, v.name)]
  ELSE S

\* the continuation of _runSchema after the resolver has answered
CompleteValidation(S, v, checkResult) ==
  LET errs == onboardingSchema(v.input, checkResult) IN
  IF v.kind = "submit"
  THEN SubmitValidated([S EXCEPT !.validatingFields = {}], v, errs)
  ELSE FieldValidated([S EXCEPT !.validatingFields = @ \ {v.name}], v, errs)

\* _runSchema: mark the names as validating and call the resolver on the
\* current record; the run waits only when the corporation check has to
\* wait for the collaborator.
RunSchema(S, kind, name, eventValue, trig) ==
  LET v == [kind |-> kind, name |-> name, eventValue |-> eventValue,
            input |-> S.values, trigger |-> trig,
            promise |-> IF NeedsCheck(S.values) THEN CallPromise(CheckKey(S.values)) ELSE 0]
      S1 == [S EXCEPT !.validatingFields = IF kind = "submit" THEN Fields
                                           ELSE @ \cup {name}]
  IN IF NeedsCheck(S.values) /\ CallBranch(CheckKey(S.values)) # "cached"
     THEN [S1 EXCEPT !.validations = Append(@, v)]
     ELSE CompleteValidation(S1, v,
            IF NeedsCheck(S.values)
            THEN corporationValidationCache[CheckKey(S.values)] ELSE TRUE)

\* the cache side of a resolver run on record rec
ResolverCall(rec) ==
  IF NeedsCheck(rec) THEN validateCorporationWithCache(CheckKey(rec))
  ELSE UNCHANGED cacheVars

\* the resolver runs awaiting promise p resume, in the order they awaited it
RECURSIVE ResumeAll(_, _, _)
ResumeAll(S, waiting, checkResult) ==
  IF waiting = <<>> THEN S
  ELSE ResumeAll(CompleteValidation(S, Head(waiting), checkResult),
                 Tail(waiting), checkResult)

Awaiting(p) == SelectSeq(validations, LAMBDA v : v.promise = p)
NotAwaiting(p) == SelectSeq(validations, LAMBDA v : v.promise # p)

\* the error-clearing effect: after a render with a submit error and values
\* that differ from the last seen ones, the mutation is reset
EffectMutationMutant(S) == S.submitMutation
EffectMutation(S) ==
  IF S.submitMutation.status = "error" /\ previousValuesRef # S.values
  THEN [status |-> "idle", current |-> 0, error |-> NoError]
  ELSE S.submitMutation

\* isSubmitDisabled as the hook computes it at a render
AllFieldsFilledMutant(vals) == \A f \in Fields : vals[f] # <<>>
AllFieldsFilled(vals) == \A f \in Fields : vals[f] # <<>> /\ Len(Trim(vals[f])) > 0

HookOf(S, mutation) ==
  LET hasErrors == Cardinality(DOMAIN S.errors) > 0
      isValidating == S.validatingFields # {}
      isPending == mutation.status = "pending"
  IN [isSubmitting |-> isPending,
      isValidating |-> isValidating,
      isSuccess |-> mutation.status = "success",
      submitError |-> mutation.error,
      isSubmitDisabled |-> hasErrors \/ ~AllFieldsFilled(S.values) \/ isPending
                             \/ isValidating]

\* the state after the task: the engine state, the effect and the render
Commit(S) ==
  \E T \in {S} :
    /\ values' = T.values
    /\ errors' = T.errors
    /\ validatingFields' = T.validatingFields
    /\ isSubmitted' = T.isSubmitted
    /\ validations' = T.validations
    /\ submissions' = T.submissions
    /\ triggers' = T.triggers
    /\ invocations' = T.invocations
    /\ submitMutation' = EffectMutation(T)
    /\ previousValuesRef' = T.values
    /\ hook' = HookOf(T, EffectMutation(T))
    /\ UNCHANGED fnVars

FormInit ==
  /\ values = defaultValues
  /\ errors = EmptyMap
  /\ validatingFields = {}
  /\ isSubmitted = FALSE
  /\ validations = <<>>
  /\ submitMutation = [status |-> "idle", current |-> 0, error |-> NoError]
  /\ submissions = {}
  /\ previousValuesRef = defaultValues
  /\ triggers = <<>>
  /\ invocations = <<>>
  /\ hook = [isSubmitting |-> FALSE, isValidating |-> FALSE, isSuccess |-> FALSE,
             submitError |-> NoError, isSubmitDisabled |-> TRUE]

\* validation mode: onBlur before the first submit, onChange after it
ValidatesOn(event) ==
  IF isSubmitted THEN event = "change" ELSE event = "blur"

\* a run that would have to wait needs room among the waiting runs
RoomToValidate(rec) ==
  /\ (NeedsCheck(rec) /\ CallBranch(CheckKey(rec)) # "cached")
       => Len(validations) < MaxValidations
  /\ (NeedsCheck(rec) /\ CallBranch(CheckKey(rec)) = "start")
       => Len(promises) < MaxChecks

\* the user changes field f to value v
\* history: the pending invocations have seen an edit
Edited(invs) ==
  [i \in DOMAIN invs |->
     IF invs[i].outcome = "pending" THEN [invs[i] EXCEPT !.edited = TRUE] ELSE invs[i]]

Change(f, v) ==
  LET S1 == [FormState EXCEPT !.values[f] = v, !.invocations = Edited(@)] IN
  /\ v # values[f]
  /\ IF ValidatesOn("change")
     THEN /\ RoomToValidate(S1.values)
          /\ ResolverCall(S1.values)
          /\ Commit(RunSchema(S1, "field", f, v, 0))
     ELSE /\ UNCHANGED cacheVars
          /\ Commit(S1)
  /\ UNCHANGED callers

\* field f loses focus
Blur(f) ==
  /\ ValidatesOn("blur")
  /\ RoomToValidate(values)
  /\ ResolverCall(values)
  /\ Commit(RunSchema(FormState, "field", f, values[f], 0))
  /\ UNCHANGED callers

\* the form's submit event: the button is enabled (a click, or Enter in a field)
SubmitTrigger ==
  /\ ~hook.isSubmitDisabled
  /\ Len(triggers) < MaxSubmits
  /\ RoomToValidate(values)
  /\ ResolverCall(values)
  /\ Commit(RunSchema([FormState EXCEPT !.triggers = Append(@, "validating")],
                      "submit", "", <<>>, Len(triggers) + 1))
  /\ UNCHANGED callers

\* the collaborator answers request p: the validation promise settles and
\* every resolver run awaiting it resumes
CheckSettle(p, resp) ==
  /\ SettleValidation(p, resp)
  /\ Commit(ResumeAll([FormState EXCEPT !.validations = NotAwaiting(p)],
                      Awaiting(p), promises'[p].value))
  /\ UNCHANGED callers

\* onSubmit call i resolves: onSuccess resets the form, the observed mutation
\* becomes successful, and handleSubmit finishes
SubmitResolve(i) ==
  /\ i \in submissions
  /\ Commit([FormState EXCEPT
       !.submissions = @ \ {i},
       !.invocations[i].outcome = "resolved",
       !.values = defaultValues,
       !.errors = EmptyMap,
       !.isSubmitted = TRUE,
       !.submitMutation = IF @.current = i THEN [@ EXCEPT !.status = "success"] ELSE @])
  /\ UNCHANGED cacheVars
  /\ UNCHANGED callers

\* onSubmit call i rejects: the observed mutation holds the error, the
\* record is kept, and handleSubmit finishes
SubmitReject(i) ==
  /\ i \in submissions
  /\ Commit([FormState EXCEPT
       !.submissions = @ \ {i},
       !.invocations[i].outcome = "rejected",
       !.isSubmitted = TRUE,
       !.submitMutation = IF @.current = i
                          THEN [@ EXCEPT !.status = "error", !.error = ThrownBy(i)]
                          ELSE @])
  /\ UNCHANGED cacheVars
  /\ UNCHANGED callers

FormNext ==
  \/ \E f \in Fields : \E v \in FieldInputs(f) : Change(f, v)
  \/ \E f \in Fields : Blur(f)
  \/ SubmitTrigger
  \/ \E p \in network : \E resp \in Responses : CheckSettle(p, resp)
  \/ \E i \in 1..MaxSubmits : SubmitResolve(i)
  \/ \E i \in 1..MaxSubmits : SubmitReject(i)

\* the state after the module has loaded and the hook has rendered once
Init ==
  /\ CacheInit
  /\ FormInit
  /\ callers = [c \in Callers |-> IdleCaller]
  /\ arg = NoCall
  /\ ret = NoCall
  /\ RegistryInit

FormSpec == Init /\ [][FormNext]_vars

(* ---------------- cache specification: independent callers ---------------- *)

\* caller c calls validateCorporationWithCache(value)
Call(c, value) ==
  /\ callers[c].st = "idle"
  /\ validateCorporationWithCache(value)
  /\ callers' = [callers EXCEPT ![c] =
       [st |-> IF CallBranch(value) = "cached" THEN "done" ELSE "waiting",
        key |-> value,
        promise |-> CallPromise(value),
        result |-> IF CallBranch(value) = "cached"
                   THEN corporationValidationCache[value] ELSE FALSE,
        hit |-> CallBranch(value) = "cached",
        gen |-> settledCount[value],
        inv |-> collabCalls'[value]]]
  /\ UNCHANGED formVars
  /\ UNCHANGED fnVars

\* a settlement that resumes the callers only when the check did not throw
SettleMutant(p, resp) ==
  /\ SettleValidation(p, resp)
  /\ callers' = [c \in Callers |->
       IF callers[c].st = "waiting" /\ callers[c].promise = p /\ ~promises'[p].threw
       THEN [callers[c] EXCEPT !.st = "done", !.result = promises'[p].value]
       ELSE callers[c]]
  /\ UNCHANGED formVars
  /\ UNCHANGED fnVars

\* the collaborator answers request p; every caller awaiting the promise resumes
Settle(p, resp) ==
  /\ SettleValidation(p, resp)
  /\ callers' = [c \in Callers |->
       IF callers[c].st = "waiting" /\ callers[c].promise = p
       THEN [callers[c] EXCEPT !.st = "done", !.result = promises'[p].value]
       ELSE callers[c]]
  /\ UNCHANGED formVars
  /\ UNCHANGED fnVars

\* caller c has consumed its result and may call again
Return(c) ==
  /\ callers[c].st = "done"
  /\ callers' = [callers EXCEPT ![c] = IdleCaller]
  /\ UNCHANGED cacheVars
  /\ UNCHANGED formVars
  /\ UNCHANGED fnVars

Next ==
  \/ \E c \in Callers, value \in Keys : Call(c, value)
  \/ \E p \in 1..MaxRequests, resp \in Responses : p \in network /\ Settle(p, resp)
  \/ \E c \in Callers : Return(c)

Spec == Init /\ [][Next]_vars

\* the collaborator settles every request it was given
CollaboratorSettles ==
  \A p \in 1..MaxRequests : WF_vars(\E resp \in Responses : p \in network /\ Settle(p, resp))

LiveSpec == Init /\ [][Next]_vars /\ CollaboratorSettles


TypeOK ==
  /\ DOMAIN corporationValidationCache \subseteq Keys
  /\ DOMAIN pendingValidations \subseteq Keys
  /\ network \subseteq 1..Len(promises)

(* ---------------- function specifications ---------------- *)
\* A function specification draws the argument of one call in its initial
\* state and applies the function to it; the form and the cache stay as
\* they are after construction.
RestInit ==
  /\ CacheInit
  /\ FormInit
  /\ callers = [c \in Callers |-> IdleCaller]
  /\ RegistryInit

OthersUnchanged ==
  /\ UNCHANGED cacheVars
  /\ UNCHANGED formVars
  /\ UNCHANGED callers

RestUnchanged ==
  /\ OthersUnchanged
  /\ UNCHANGED maskRegistry

\* the strings over an alphabet up to a length
StringsUpTo(chars, n) == UNION {[1..k -> chars] : k \in 0..n}

(* ---------------- the submit boundary: mutationFn ---------------- *)
SanChars == {"<", ">", "/", "&", "b", "J"}
ScriptJohn == <<"<", "s", "c", "r", "i", "p", "t", ">", "a", "l", "e", "r", "t", "(", "1", ")", "<", "/", "s", "c", "r", "i", "p", "t", ">", "J", "o", "h", "n">>
BoldJohn == <<"<", "b", ">", "J", "o", "h", "n", "<", "/", "b", ">">>
SubmitStrings == StringsUpTo(SanChars, MaxSanLen) \cup {ScriptJohn, BoldJohn}

\* the records handleSubmit hands to mutateAsync: a string field, a field
\* that holds a number or a string, and a field that is not a string
SubmitRecords ==
  [name : {JsString(x) : x \in SubmitStrings},
   age : {JsNumber(<<"7">>), JsNumber(<<"<", "b", ">", "7">>), JsString(<<"7">>),
          JsString(<<"<", "b", ">", "7">>)},
   agreed : {JsBoolean(<<"t", "r", "u", "e">>)}]

SanitizeInit ==
  /\ RestInit
  /\ arg \in {[op |-> "mutationFn", data |-> d] : d \in SubmitRecords}
  /\ ret = NoCall

\* mutationFn(data): sanitizedData = sanitizeFormData(data); onSubmit(sanitizedData)
MutationFn ==
  /\ arg.op = "mutationFn"
  /\ ret = NoCall
  /\ ret' = [op |-> "onSubmit", data |-> sanitizeFormData(arg.data)]
  /\ UNCHANGED arg
  /\ RestUnchanged

SanitizeSpec == SanitizeInit /\ [][MutationFn]_vars


(* ---------------- the resolver on one record ---------------- *)
\* a string of n times the character c
Repeat(c, n) == [i \in 1..n |-> c]

\* the records the schema is given: every field ranges over values on both
\* sides of each of its rules
FirstNames ==
  {<<>>, <<" ">>, <<"J", "o">>, <<" ", "J", "o", " ">>,
   Repeat("x", MAX_NAME_LENGTH), Repeat("x", MAX_NAME_LENGTH + 1),
   <<" ">> \o Repeat("x", MAX_NAME_LENGTH) \o <<" ">>}
LastNames == {<<>>, <<"D", "o", "e">>, Repeat("y", MAX_NAME_LENGTH + 1)}
Phones ==
  {<<>>, <<" ">>, PhoneOk, <<"3", "0", "6", "2", "7", "7", "6", "1", "0", "3">>, <<"+", "1", " ", "(", "3", "0", "6", ")", " ", "2", "7", "7", "-", "6", "1", "0", "3">>, <<"+", "1", "1", "0", "6", "2", "7", "7", "6", "1", "0", "3">>, <<"0", "0", "6", "2", "7", "7", "6", "1", "0", "3">>,
   <<"2", "3", "0", "6", "2", "7", "7", "6", "1", "0", "3">>, <<"3", "0", "6", "2", "7", "7", "6", "1", "0">>, <<"1", "3", "0", "6", "2", "7", "7", "6", "1", "0", "3", "3">>, <<"a", "b", "c">>}
CorporationNumbers ==
  {<<>>, <<" ">>, <<"1", "2">>, <<"1", "2", "a">>, <<"8", "2", "6", "4", "1", "7", "3", "9", "a">>, <<"8", "2", "6", "4", " ", "7", "3", "9", "5">>,
   <<"8", "2", "6", "4", "1", "7", "3", "9", "5", "0">>, CorpA, CorpB, <<" ">> \o CorpA, CorpB \o <<" ">>, <<" ", "8", "2", "6", "4", "1", "7", "3", "9">>}
SchemaRecords ==
  [firstName : FirstNames, lastName : LastNames, phone : Phones,
   corporationNumber : CorporationNumbers]

ValidationInit ==
  /\ RestInit
  /\ arg \in {[op |-> "resolver", record |-> rec] : rec \in SchemaRecords}
  /\ ret = NoCall

\* the resolver is called on the record: the synchronous rules run, and a
\* well-formed corporation number goes through validateCorporationWithCache
Resolve ==
  /\ arg.op = "resolver"
  /\ ret = NoCall
  /\ ResolverCall(arg.record)
  /\ ret' = IF NeedsCheck(arg.record) /\ CallBranch(CheckKey(arg.record)) # "cached"
            THEN [op |-> "awaiting", promise |-> CallPromise(CheckKey(arg.record))]
            ELSE [op |-> "errors",
                  errors |-> onboardingSchema(arg.record,
                    IF NeedsCheck(arg.record)
                    THEN corporationValidationCache[CheckKey(arg.record)] ELSE TRUE),
                  checked |-> NeedsCheck(arg.record),
                  result |-> IF NeedsCheck(arg.record)
                             THEN corporationValidationCache[CheckKey(arg.record)]
                             ELSE TRUE]
  /\ UNCHANGED <<arg, callers, maskRegistry>>
  /\ UNCHANGED formVars

\* the collaborator answers and the resolver returns the errors
ResolveSettle(resp) ==
  /\ ret.op = "awaiting"
  /\ SettleValidation(ret.promise, resp)
  /\ ret' = [op |-> "errors",
             errors |-> onboardingSchema(arg.record, promises'[ret.promise].value),
             checked |-> TRUE,
             result |-> promises'[ret.promise].value]
  /\ UNCHANGED <<arg, callers, maskRegistry>>
  /\ UNCHANGED formVars

\* the same record is validated once more
ResolveAgain ==
  /\ ret.op = "errors"
  /\ Len(promises) < MaxChecks
  /\ ret' = NoCall
  /\ UNCHANGED arg
  /\ RestUnchanged

ValidationNext ==
  \/ Resolve
  \/ \E resp \in Responses : ResolveSettle(resp)
  \/ ResolveAgain

ValidationSpec == ValidationInit /\ [][ValidationNext]_vars


(* ---------------- isValidCanadianPhone on one value ---------------- *)
\* the values: up to two leading characters, a run of digits, and possibly
\* a trailing letter
PhonePrefixes == StringsUpTo({"0", "1", "2", "9", "+", "-"}, 2)
PhoneValues ==
  {pre \o Repeat("5", n) \o suf :
     pre \in PhonePrefixes, n \in (MaxPhoneBody - 3)..MaxPhoneBody,
     suf \in {<<>>, <<"x">>}}

PhoneInit ==
  /\ RestInit
  /\ arg \in {[op |-> "isValidCanadianPhone", value |-> v] : v \in PhoneValues}
  /\ ret = NoCall

CallIsValidCanadianPhone ==
  /\ arg.op = "isValidCanadianPhone"
  /\ ret = NoCall
  /\ ret' = [op |-> "returned", value |-> isValidCanadianPhone(arg.value)]
  /\ UNCHANGED arg
  /\ RestUnchanged

PhoneSpec == PhoneInit /\ [][CallIsValidCanadianPhone]_vars

(* ---------------- masks: the preset registry ---------------- *)
\* String.prototype.slice(from, to) with 0 <= from
Slice(s, from, to) ==
  IF from >= Len(s) \/ to <= from THEN <<>>
  ELSE SubSeq(s, from + 1, IF to < Len(s) THEN to ELSE Len(s))

ToUpperCase(c) ==
  IF \E n \in DOMAIN LowerLetters : c = LowerLetters[n]
  THEN UpperLetters[CHOOSE n \in DOMAIN LowerLetters : c = LowerLetters[n]]
  ELSE c

\* s.replace(/[^A-Za-z0-9]/g, '').toUpperCase()
RECURSIVE CleanedUpper(_)
CleanedUpper(s) ==
  IF s = <<>> THEN <<>>
  ELSE IF IsAlpha(Head(s)) \/ Head(s) \in Digits
       THEN <<ToUpperCase(Head(s))>> \o CleanedUpper(Tail(s))
       ELSE CleanedUpper(Tail(s))

\* digits.match(/.{1,4}/g).join(' ')
RECURSIVE JoinGroups(_)
JoinGroups(digits) ==
  IF Len(digits) <= 4 THEN digits
  ELSE Slice(digits, 0, 4) \o <<" ">> \o JoinGroups(Slice(digits, 4, Len(digits)))

\* maskRegistry['phone-ca'].format, with the parenthesis closed too early
PhoneCaFormatMutant(raw) ==
  LET digits == DigitsOf(raw) IN
  IF Len(digits) = 0 THEN <<>>
  ELSE IF Len(digits) <= 1 THEN <<"+">> \o digits
  ELSE IF Len(digits) <= 3
    THEN <<"+">> \o Slice(digits, 0, 1) \o <<" ", "(">> \o Slice(digits, 1, Len(digits))
  ELSE IF Len(digits) <= 7
    THEN <<"+">> \o Slice(digits, 0, 1) \o <<" ", "(">> \o Slice(digits, 1, 4)
         \o <<")", " ">> \o Slice(digits, 4, Len(digits))
  ELSE <<"+">> \o Slice(digits, 0, 1) \o <<" ", "(">> \o Slice(digits, 1, 4)
       \o <<")", " ">> \o Slice(digits, 4, 7) \o <<"-">> \o Slice(digits, 7, 11)

\* maskRegistry['phone-ca'].format
PhoneCaFormat(raw) ==
  LET digits == DigitsOf(raw) IN
  IF Len(digits) = 0 THEN <<>>
  ELSE IF Len(digits) <= 1 THEN <<"+">> \o digits
  ELSE IF Len(digits) <= 4
    THEN <<"+">> \o Slice(digits, 0, 1) \o <<" ", "(">> \o Slice(digits, 1, Len(digits))
  ELSE IF Len(digits) <= 7
    THEN <<"+">> \o Slice(digits, 0, 1) \o <<" ", "(">> \o Slice(digits, 1, 4)
         \o <<")", " ">> \o Slice(digits, 4, Len(digits))
  ELSE <<"+">> \o Slice(digits, 0, 1) \o <<" ", "(">> \o Slice(digits, 1, 4)
       \o <<")", " ">> \o Slice(digits, 4, 7) \o <<"-">> \o Slice(digits, 7, 11)

\* maskRegistry['phone-ca'].parse
PhoneCaParse(formatted) ==
  LET digits == DigitsOf(formatted) IN
  IF Len(digits) = 0 THEN <<>> ELSE <<"+">> \o Slice(digits, 0, 11)

\* maskRegistry['credit-card'].format
CreditCardFormat(raw) ==
  LET digits == DigitsOf(raw) IN
  IF digits = <<>> THEN digits ELSE Slice(JoinGroups(digits), 0, 19)

\* maskRegistry['credit-card'].parse, without the cut at 16
CreditCardParseMutant(formatted) == DigitsOf(formatted)

\* maskRegistry['credit-card'].parse
CreditCardParse(formatted) == Slice(DigitsOf(formatted), 0, 16)

\* maskRegistry['postal-code-ca'].format
PostalCodeCaFormat(raw) ==
  LET cleaned == Slice(CleanedUpper(raw), 0, 6) IN
  IF Len(cleaned) <= 3 THEN cleaned
  ELSE Slice(cleaned, 0, 3) \o <<" ">> \o Slice(cleaned, 3, Len(cleaned))

\* maskRegistry['postal-code-ca'].parse
PostalCodeCaParse(formatted) == Slice(CleanedUpper(formatted), 0, 6)

\* maskRegistry.date.format, with the year cut after three digits
DateFormatMutant(raw) ==
  LET digits == Slice(DigitsOf(raw), 0, 8) IN
  IF Len(digits) <= 2 THEN digits
  ELSE IF Len(digits) <= 4 THEN Slice(digits, 0, 2) \o <<"/">> \o Slice(digits, 2, Len(digits))
  ELSE Slice(digits, 0, 2) \o <<"/">> \o Slice(digits, 2, 4) \o <<"/">> \o Slice(digits, 4, 7)

\* maskRegistry.date.format
DateFormat(raw) ==
  LET digits == Slice(DigitsOf(raw), 0, 8) IN
  IF Len(digits) <= 2 THEN digits
  ELSE IF Len(digits) <= 4 THEN Slice(digits, 0, 2) \o <<"/">> \o Slice(digits, 2, Len(digits))
  ELSE Slice(digits, 0, 2) \o <<"/">> \o Slice(digits, 2, 4) \o <<"/">> \o Slice(digits, 4, 8)

\* maskRegistry.date.parse
DateParse(formatted) == Slice(DigitsOf(formatted), 0, 8)

\* the functions of the custom configurations
UpperCased(str) == [i \in DOMAIN str |-> ToUpperCase(str[i])]
LowerCased(str) == [i \in DOMAIN str |-> ToLower(str[i])]

\* config.format(value)
ApplyFormat(format, value) ==
  CASE format = "phone-ca" -> PhoneCaFormat(value)
    [] format = "credit-card" -> CreditCardFormat(value)
    [] format = "postal-code-ca" -> PostalCodeCaFormat(value)
    [] format = "date" -> DateFormat(value)
    [] format = "paren" -> <<"(">> \o value \o <<")">>
    [] format = "upper" -> UpperCased(value)

\* config.parse(formatted)
ApplyParse(parse, formatted) ==
  CASE parse = "phone-ca" -> PhoneCaParse(formatted)
    [] parse = "credit-card" -> CreditCardParse(formatted)
    [] parse = "postal-code-ca" -> PostalCodeCaParse(formatted)
    [] parse = "date" -> DateParse(formatted)
    [] parse = "paren" -> SelectSeq(formatted, LAMBDA c : c \notin {"(", ")"})
    [] parse = "lower" -> LowerCased(formatted)

\* a mask argument: a preset name or an inline configuration
Named(name) == [typeof |-> "string", name |-> name]
Inline(config) == [typeof |-> "object", config |-> config]

\* the properties every object inherits from Object.prototype
ObjectPrototypeNames ==
  {"constructor", "hasOwnProperty", "isPrototypeOf", "propertyIsEnumerable",
   "toLocaleString", "toString", "valueOf"}

\* the keys of a configuration object
ConfigKeys == {"format", "parse", "placeholder", "maxLength"}

\* an object or function that has none of the properties of an entry
Undefined == "undefined"
NotAnEntry ==
  [format |-> Undefined, parse |-> Undefined, placeholder |-> None, maxLength |-> None]

\* maskRegistry[name]: an own property, else the prototype under __proto__,
\* else a property inherited from the prototype chain, else undefined
Get(registry, name) ==
  IF name \in DOMAIN registry.own THEN Some(registry.own[name])
  ELSE IF name = "__proto__"
    THEN IF registry.prototype = ObjectPrototype THEN Some(NotAnEntry)
         ELSE Some(registry.prototype.config)
  ELSE IF registry.prototype # ObjectPrototype /\ name \in ConfigKeys
    THEN IF name \in {"format", "parse"} \/ registry.prototype.config[name].defined
         THEN Some(NotAnEntry) ELSE None
  ELSE IF name \in ObjectPrototypeNames THEN Some(NotAnEntry)
  ELSE None

\* the outcome of a call: a returned value, the Error of getMaskConfig, or
\* the TypeError of calling a property that is not a function
Threw(name) == [op |-> "threw", error |-> "Mask preset not found in registry",
                name |-> name]
TypeError == [op |-> "threw", error |-> "TypeError"]
Value(op, v) == [op |-> op, value |-> v]

\* getMaskConfig(mask)
getMaskConfig(mask) ==
  IF mask.typeof = "string"
  THEN LET preset == Get(maskRegistry, mask.name) IN
       IF ~preset.defined THEN Threw(mask.name)
       ELSE [op |-> "config", config |-> preset.value]
  ELSE [op |-> "config", config |-> mask.config]

formatWithMask(value, mask) ==
  LET found == getMaskConfig(mask) IN
  IF found.op = "threw" THEN found
  ELSE IF found.config.format = Undefined THEN TypeError
  ELSE Value("formatted", ApplyFormat(found.config.format, value))

parseWithMask(formatted, mask) ==
  LET found == getMaskConfig(mask) IN
  IF found.op = "threw" THEN found
  ELSE IF found.config.parse = Undefined THEN TypeError
  ELSE Value("parsed", ApplyParse(found.config.parse, formatted))

getMaskPlaceholder(mask) ==
  LET found == getMaskConfig(mask) IN
  IF found.op = "threw" THEN found
  ELSE [op |-> "placeholder"] @@ found.config.placeholder

getMaskMaxLength(mask) ==
  LET found == getMaskConfig(mask) IN
  IF found.op = "threw" THEN found
  ELSE [op |-> "maxLength"] @@ found.config.maxLength

\* registerMaskPreset(name, config): maskRegistry[name] = config, where the
\* assignment to __proto__ sets the prototype
registerMaskPreset(registry, name, config) ==
  IF name = "__proto__" THEN [registry EXCEPT !.prototype = [config |-> config]]
  ELSE [registry EXCEPT !.own = (name :> config) @@ @]

\* getRegisteredMaskPresets(): Object.keys(maskRegistry)
getRegisteredMaskPresets == DOMAIN maskRegistry.own

(* ---------------- the masks on one value ---------------- *)
\* the values: up to two leading characters, a run of digits and possibly a
\* trailing character; the names: the presets and one that is not registered
MaskChars == {"+", "4", "a", "K", " ", "-"}
MaskValues ==
  {pre \o Repeat("5", n) \o suf :
     pre \in StringsUpTo(MaskChars, 2), n \in 0..MaxMaskBody,
     suf \in StringsUpTo(MaskChars, 1)}
MaskNames == BuiltInPresets \cup {"unknown-mask"}
TypedDigits == {"1", "4"}

MaskInit ==
  /\ RestInit
  /\ arg \in {[op |-> "mask", mask |-> m, value |-> v] :
                m \in MaskNames, v \in MaskValues}
  /\ ret = NoCall

\* formatWithMask(value, mask)
Format ==
  /\ arg.op = "mask"
  /\ ret = NoCall
  /\ ret' = [call |-> "format", typed |-> 0] @@ formatWithMask(arg.value, Named(arg.mask))
  /\ UNCHANGED arg
  /\ RestUnchanged

\* one more digit at the end of a raw value of digits, formatted again
Type ==
  /\ arg.op = "mask"
  /\ ret.op = "formatted"
  /\ DigitsOf(arg.value) = arg.value
  /\ Len(arg.value) < MaxTyped
  /\ \E d \in TypedDigits :
       /\ arg' = [arg EXCEPT !.value = Append(@, d)]
       /\ ret' = [call |-> "format", typed |-> ret.typed + 1]
                 @@ formatWithMask(arg'.value, Named(arg.mask))
  /\ RestUnchanged

\* parseWithMask(value, mask)
Parse ==
  /\ arg.op = "mask"
  /\ ret = NoCall
  /\ ret' = [call |-> "parse"] @@ parseWithMask(arg.value, Named(arg.mask))
  /\ UNCHANGED arg
  /\ RestUnchanged

\* parseWithMask(formatWithMask(x, mask), mask): x is the argument the first
\* time and the result of the first time the second time
RoundTripOf(x, mask, times) ==
  LET formatted == formatWithMask(x, mask) IN
  IF formatted.op = "threw" THEN [call |-> "roundTrip", times |-> times] @@ formatted
  ELSE [call |-> "roundTrip", times |-> times] @@ parseWithMask(formatted.value, mask)

RoundTrip ==
  /\ arg.op = "mask"
  /\ ret = NoCall
  /\ ret' = RoundTripOf(arg.value, Named(arg.mask), 1)
  /\ UNCHANGED arg
  /\ RestUnchanged

RoundTripAgain ==
  /\ arg.op = "mask"
  /\ ret.op = "parsed" /\ ret.call = "roundTrip" /\ ret.times = 1
  /\ ret' = RoundTripOf(ret.value, Named(arg.mask), 2)
  /\ UNCHANGED arg
  /\ RestUnchanged

\* getMaskMaxLength(mask)
MaxLength ==
  /\ arg.op = "mask"
  /\ ret = NoCall
  /\ ret' = [call |-> "getMaskMaxLength"] @@ getMaskMaxLength(Named(arg.mask))
  /\ UNCHANGED arg
  /\ RestUnchanged

MaskNext == Format \/ Type \/ Parse \/ RoundTrip \/ RoundTripAgain \/ MaxLength

MaskSpec == MaskInit /\ [][MaskNext]_vars

(* ---------------- the registry under registrations ---------------- *)
\* the configurations registered or passed inline: the two of the tests and
\* one without placeholder and maxLength
ParenMask == [format |-> "paren", parse |-> "paren",
              placeholder |-> Some("(XXX)"), maxLength |-> Some(10)]
CaseMask == [format |-> "upper", parse |-> "lower",
             placeholder |-> Some("TEST"), maxLength |-> Some(5)]
BareMask == [format |-> "paren", parse |-> "paren",
             placeholder |-> None, maxLength |-> None]
CustomMasks == {ParenMask, CaseMask, BareMask}

\* the names used: a built-in one, new ones, and two that every object has
RegistryNames == {"phone-ca", "test-mask", "unknown-mask", "constructor", "__proto__"}
MaskArgs == {Named(n) : n \in RegistryNames} \cup {Inline(c) : c \in CustomMasks}
SampleValue == <<"a", "(", "1", ")">>

RegistryCallsInit ==
  /\ RestInit
  /\ arg = [op |-> "registry", calls |-> <<>>]
  /\ ret = NoCall

\* registerMaskPreset(name, config)
RegisterPreset ==
  /\ arg.op = "registry"
  /\ Len(arg.calls) < MaxRegistrations
  /\ \E name \in RegistryNames, config \in CustomMasks :
       /\ maskRegistry' = registerMaskPreset(maskRegistry, name, config)
       /\ arg' = [arg EXCEPT !.calls = Append(@, [name |-> name, config |-> config])]
       /\ ret' = [op |-> "returned", call |-> "registerMaskPreset"]
  /\ OthersUnchanged

\* formatWithMask(value, mask)
FormatBy ==
  /\ arg.op = "registry"
  /\ \E mask \in MaskArgs :
       ret' = [call |-> "formatWithMask", mask |-> mask] @@ formatWithMask(SampleValue, mask)
  /\ UNCHANGED arg
  /\ RestUnchanged

\* parseWithMask(formatted, mask)
ParseBy ==
  /\ arg.op = "registry"
  /\ \E mask \in MaskArgs :
       ret' = [call |-> "parseWithMask", mask |-> mask] @@ parseWithMask(SampleValue, mask)
  /\ UNCHANGED arg
  /\ RestUnchanged

\* getMaskPlaceholder(mask)
PlaceholderBy ==
  /\ arg.op = "registry"
  /\ \E mask \in MaskArgs :
       ret' = [call |-> "getMaskPlaceholder", mask |-> mask] @@ getMaskPlaceholder(mask)
  /\ UNCHANGED arg
  /\ RestUnchanged

\* getMaskMaxLength(mask)
MaxLengthBy ==
  /\ arg.op = "registry"
  /\ \E mask \in MaskArgs :
       ret' = [call |-> "getMaskMaxLength", mask |-> mask] @@ getMaskMaxLength(mask)
  /\ UNCHANGED arg
  /\ RestUnchanged

RegistryNext == RegisterPreset \/ FormatBy \/ ParseBy \/ PlaceholderBy \/ MaxLengthBy

RegistrySpec == RegistryCallsInit /\ [][RegistryNext]_vars

(* ---------------- submitOnboardingForm: apiRequest ---------------- *)
\* what the transport answers: a network failure, or a response with a
\* status and a body that is not JSON, a JSON value that is no object, or a
\* JSON object with or without a message
Statuses == {200, 201, 204, 400, 404, 422, 500, 503}
MessageKinds == {"absent", "string", "empty string", "number", "null"}
Bodies ==
  {[json |-> FALSE, type |-> "none", message |-> "absent"]}
    \cup {[json |-> TRUE, type |-> t, message |-> "absent"] :
            t \in {"null", "array", "string", "number", "boolean"}}
    \cup {[json |-> TRUE, type |-> "object", message |-> m] : m \in MessageKinds}
Transports ==
  {[kind |-> "failure", status |-> 0, body |-> [json |-> FALSE, type |-> "none", message |-> "absent"]]}
    \cup {[kind |-> "response", status |-> st, body |-> b] : st \in Statuses, b \in Bodies}

\* response.ok
Ok(response) == response.status >= 200 /\ response.status <= 299

\* profileSubmissionResponseSchema.parse(data) succeeds
profileSubmissionResponseSchema(data) ==
  data.type = "object" /\ data.message \in {"absent", "string", "empty string"}

Resolved == [op |-> "resolved"]
Rejected(error) == [op |-> "rejected", error |-> error]

\* apiRequest on what fetch gives
apiRequest(transport) ==
  IF transport.kind = "failure" THEN Rejected("fetch failed")
  ELSE IF ~transport.body.json /\ ~Ok(transport) THEN Rejected("API Error: status")
  ELSE LET data == IF transport.body.json THEN transport.body
                   ELSE [json |-> TRUE, type |-> "object", message |-> "absent"] IN
       IF ~Ok(transport)
       THEN IF data.type = "object" /\ data.message \in {"string", "number", "null"}
            THEN Rejected("data.message") ELSE Rejected("API Error: status")
       ELSE IF profileSubmissionResponseSchema(data) THEN Resolved
       ELSE Rejected("API response validation failed")

\* submitOnboardingForm(data): await apiPost(...)
submitOnboardingForm(transport) == apiRequest(transport)

ApiInit ==
  /\ RestInit
  /\ arg \in {[op |-> "submitOnboardingForm", transport |-> t] : t \in Transports}
  /\ ret = NoCall

CallSubmitOnboardingForm ==
  /\ arg.op = "submitOnboardingForm"
  /\ ret = NoCall
  /\ ret' = submitOnboardingForm(arg.transport)
  /\ UNCHANGED arg
  /\ RestUnchanged

ApiSpec == ApiInit /\ [][CallSubmitOnboardingForm]_vars

(* ---------------- the phone field: MaskedInput and PhoneInput ---------------- *)
StartsWith(str, c) == str # <<>> /\ Head(str) = c

\* MaskedInput handleChange: the raw value given to onChange
MaskedInputHandleChange(input, mask) == parseWithMask(input, Named(mask)).value

\* MaskedInput: displayValue, and the maxLength of the input element
DisplayValue(value, mask) == formatWithMask(value, Named(mask)).value
FormattedMaxLength(mask) ==
  Len(formatWithMask(Repeat("9", getMaskMaxLength(Named(mask)).value), Named(mask)).value)

\* PhoneInput handleChange: the value given to onChange
PhoneInputHandleChange(rawValue) ==
  LET digits == DigitsOf(rawValue)
      first == IF Len(rawValue) > 0 /\ ~StartsWith(rawValue, "+")
               THEN IF Len(digits) > 0 /\ ~StartsWith(digits, "1")
                    THEN <<"+", "1">> \o digits
                    ELSE IF StartsWith(digits, "1") THEN <<"+">> \o digits
                    ELSE rawValue
               ELSE rawValue
  IN IF first # <<>> /\ ~StartsWith(first, "+") /\ Len(DigitsOf(first)) > 0
     THEN <<"+", "1">> \o DigitsOf(first)
     ELSE first

\* the value the field's onChange receives for what the input element holds
FieldOnChange(component, input) ==
  IF component = "PhoneInput"
  THEN PhoneInputHandleChange(MaskedInputHandleChange(input, "phone-ca"))
  ELSE MaskedInputHandleChange(input, "phone-ca")

\* the keys pressed, and the two components a phone field is rendered with
PhoneKeys == {"1", "4", "a", " "}
PhoneComponents == {"MaskedInput", "PhoneInput"}

PhoneFieldInit ==
  /\ RestInit
  /\ arg \in {[op |-> "phoneField", component |-> c, value |-> <<>>] :
                c \in PhoneComponents}
  /\ ret = NoCall

\* a key pressed at the end of what is displayed
Keystroke ==
  /\ arg.op = "phoneField"
  /\ \E key \in PhoneKeys :
       LET input == Append(DisplayValue(arg.value, "phone-ca"), key) IN
       /\ Len(input) <= FormattedMaxLength("phone-ca")
       /\ arg' = [arg EXCEPT !.value = FieldOnChange(arg.component, input)]
       /\ ret' = [op |-> "onChange", input |-> input, value |-> arg'.value]
  /\ RestUnchanged

\* the last character of what is displayed deleted
Backspace ==
  /\ arg.op = "phoneField"
  /\ DisplayValue(arg.value, "phone-ca") # <<>>
  /\ LET display == DisplayValue(arg.value, "phone-ca")
         input == SubSeq(display, 1, Len(display) - 1) IN
     /\ arg' = [arg EXCEPT !.value = FieldOnChange(arg.component, input)]
     /\ ret' = [op |-> "onChange", input |-> input, value |-> arg'.value]
  /\ RestUnchanged

\* the form submitted with this phone and the other fields valid: the
\* resolver accepts the phone and mutationFn hands the sanitized value on
DeliverPhone ==
  /\ arg.op = "phoneField"
  /\ ret.op # "delivered"
  /\ SyncIssue("phone", arg.value) = ""
  /\ ret' = [op |-> "delivered",
             phone |-> sanitizeInput(ParsedValues([phone |-> arg.value])["phone"])]
  /\ UNCHANGED arg
  /\ RestUnchanged

PhoneFieldNext == Keystroke \/ Backspace \/ DeliverPhone

PhoneFieldSpec == PhoneFieldInit /\ [][PhoneFieldNext]_vars

(* ---------------- handleSubmit on one record ---------------- *)
\* the records submitted: a first name over the characters of markup, the
\* other fields valid, empty or wrapped in markup; and what the corporation
\* check answers
DeliveryRecords ==
  [firstName : SubmitStrings,
   lastName : {<<>>, <<"D", "o", "e">>, <<"<", "b", ">">>},
   phone : {<<>>, PhoneOk, <<"<", "b", ">">> \o PhoneOk},
   corporationNumber : {CorpA, <<"1", "2">>}]

DeliveryInit ==
  /\ RestInit
  /\ arg \in {[op |-> "handleSubmit", record |-> rec, valid |-> b] :
                rec \in DeliveryRecords, b \in BOOLEAN}
  /\ ret = NoCall

\* form.handleSubmit: the resolver validates the record; with no error
\* mutateAsync runs mutationFn, which calls onSubmit with the sanitized data
HandleSubmit ==
  /\ arg.op = "handleSubmit"
  /\ ret = NoCall
  /\ LET formErrors == onboardingSchema(arg.record, arg.valid) IN
     ret' = IF DOMAIN formErrors = {}
            THEN [op |-> "onSubmit",
                  data |-> StringsOf(sanitizeFormData(AsJs(ParsedValues(arg.record))))]
            ELSE [op |-> "errors", errors |-> formErrors]
  /\ UNCHANGED arg
  /\ RestUnchanged

DeliverySpec == DeliveryInit /\ [][HandleSubmit]_vars

(* ======================= claims: validation cache ======================= *)
InFlight(k) == {p \in network : promises[p].key = k}
Missed(c) == callers[c].st # "idle" /\ ~callers[c].hit

\* C1: calls with the same key made before the first of them resolves, with
\* nothing cached, are served by exactly one collaborator invocation (the
\* invocations of the key after the call are its settlements before it plus
\* one), share one promise, and resolve to the same boolean, which is false
\* when the single underlying check failed.
C1_ConcurrentCallsShareOneCheck ==
  /\ \A c \in Callers : Missed(c) => callers[c].inv = callers[c].gen + 1
  /\ \A c1, c2 \in Callers :
       (Missed(c1) /\ Missed(c2) /\ callers[c1].key = callers[c2].key
          /\ callers[c1].gen = callers[c2].gen)
       => /\ callers[c1].promise = callers[c2].promise
          /\ (callers[c1].st = "done" /\ callers[c2].st = "done")
               => /\ callers[c1].result = callers[c2].result
                  /\ promises[callers[c1].promise].threw => ~callers[c1].result

\* all callers called with one key before the check settled, and it failed
C1_Witness ==
  /\ \A c \in Callers : callers[c].st = "done" /\ ~callers[c].hit /\ callers[c].promise = 1
  /\ promises # <<>> /\ promises[1].threw
  /\ collabCalls[promises[1].key] = 1

\* C2: a check that throws resolves its callers to false, leaves the cache as
\* it was with no entry for the key and no pending marker, and a later call
\* with that key (neither cached nor pending) invokes the collaborator again
\* and resolves to what the collaborator then answers.
C2_FailedCheckNotCached ==
  [][ /\ \A p \in network \ network' :
           promises'[p].threw =>
             /\ corporationValidationCache' = corporationValidationCache
             /\ promises[p].key \notin DOMAIN corporationValidationCache'
             /\ promises[p].key \notin DOMAIN pendingValidations'
             /\ \A c \in Callers :
                  (callers[c].st = "waiting" /\ callers[c].promise = p)
                  => (callers'[c].st = "done" /\ callers'[c].result = FALSE)
      /\ \A c \in Callers, k \in Keys :
           (callers[c].st = "idle" /\ callers'[c].st # "idle" /\ callers'[c].key = k
              /\ settledCount[k] > 0 /\ k \notin DOMAIN corporationValidationCache)
           => collabCalls'[k] = settledCount[k] + 1
      /\ \A p \in network \ network', c \in Callers :
           (~promises'[p].threw /\ callers[c].st = "waiting" /\ callers[c].promise = p)
           => callers'[c].result = promises'[p].value
    ]_vars

\* a first check failed, a second check of the same key succeeded with true
C2_Witness ==
  \E c \in Callers :
    /\ Len(promises) >= 2
    /\ promises[1].threw /\ promises[2].settled /\ ~promises[2].threw
    /\ promises[2].key = promises[1].key
    /\ collabCalls[promises[1].key] = 2
    /\ callers[c].st = "done" /\ callers[c].promise = 2 /\ callers[c].result = TRUE

\* C3: at most one unsettled collaborator request per key, and every call
\* still waiting is attached to the one in-flight request of its key.
C3_OneInFlightPerKey ==
  /\ \A k \in Keys : Cardinality(InFlight(k)) <= 1
  /\ \A k \in Keys : collabCalls[k] - settledCount[k] = Cardinality(InFlight(k))
  /\ \A c \in Callers :
       callers[c].st = "waiting" => InFlight(callers[c].key) = {callers[c].promise}

\* two calls joined on one request while a request of the other key is in flight too
C3_Witness ==
  /\ Cardinality(network) = 2
  /\ \E c1, c2 \in Callers :
       /\ c1 # c2 /\ callers[c1].st = "waiting" /\ callers[c2].st = "waiting"
       /\ callers[c1].promise = callers[c2].promise

\* C4: once a check of key k has completed successfully with result b, the
\* cache holds b for k and keeps it in every step, the collaborator is not
\* invoked for k again, and every later call with k returns b at once.
C4_CachedResultPermanent ==
  [][ \A p \in 1..Len(promises) :
        (promises[p].settled /\ ~promises[p].threw) =>
          LET k == promises[p].key IN
          /\ k \in DOMAIN corporationValidationCache
          /\ corporationValidationCache[k] = promises[p].value
          /\ k \in DOMAIN corporationValidationCache'
          /\ corporationValidationCache'[k] = promises[p].value
          /\ collabCalls'[k] = collabCalls[k]
          /\ \A c \in Callers :
               (callers[c].st = "idle" /\ callers'[c].st # "idle" /\ callers'[c].key = k)
               => /\ callers'[c].st = "done"
                  /\ callers'[c].result = promises[p].value
    ]_vars

\* a call answered from the cache with a negative result
C4_Witness ==
  \E c \in Callers :
    callers[c].st = "done" /\ callers[c].hit /\ callers[c].result = FALSE

(* ======================= claims: the form ======================= *)
ErrorAt(errs, f) == IF f \in DOMAIN errs THEN errs[f] ELSE ""
Invocations == 1..Len(invocations)

\* C5: when the check started for value A settles after the corporation
\* number has been changed to a different value B, the step neither sets nor
\* clears nor replaces the error shown for the corporation number, and the
\* cache changes at key A only.
C5_StaleCheckKeepsErrorState ==
  [][ \A p \in network \ network' :
        promises[p].key # CheckKey(values)
        => /\ ErrorAt(errors', "corporationNumber") = ErrorAt(errors, "corporationNumber")
           /\ \A k \in Keys \ {promises[p].key} :
                /\ (k \in DOMAIN corporationValidationCache')
                     <=> (k \in DOMAIN corporationValidationCache)
                /\ k \in DOMAIN corporationValidationCache
                     => corporationValidationCache'[k] = corporationValidationCache[k]
    ]_vars

\* the corporation number shows "invalid" for a well-formed value the
\* collaborator was never asked about
C5_Witness ==
  /\ ErrorAt(errors, "corporationNumber") = "onboarding.errors.invalidCorporation"
  /\ NeedsCheck(values)
  /\ collabCalls[CheckKey(values)] = 0

\* C6: onSubmit is invoked for a submit trigger only after the validation of
\* the trigger's record has completed without error on every field: the data
\* handed over pass every synchronous rule, their corporation number has been
\* checked with a positive result, each trigger invokes onSubmit at most once,
\* and a trigger whose validation is still running or has found an error has
\* invoked nothing.
C6_InvokedOnlyAfterFullValidation ==
  /\ \A i \in Invocations :
       LET inv == invocations[i] IN
       /\ inv.trigger \in 1..Len(triggers)
       /\ triggers[inv.trigger] = "valid"
       /\ \A f \in Fields : SyncIssue(f, inv.data[f]) = ""
       /\ NeedsCheck(inv.data)
       /\ CacheHas(CheckKey(inv.data))
       /\ corporationValidationCache[CheckKey(inv.data)] = TRUE
       /\ \A j \in Invocations : invocations[j].trigger = inv.trigger => j = i
  /\ \A t \in 1..Len(triggers) :
       triggers[t] # "valid" => \A i \in Invocations : invocations[i].trigger # t

\* a first trigger ended on a validation error without an invocation, a
\* second one passed validation and invoked onSubmit
C6_Witness ==
  /\ triggers = <<"invalid", "valid">>
  /\ Len(invocations) = 1
  /\ invocations[1].trigger = 2

\* C7: onSubmit is never invoked while an earlier invocation has not settled,
\* nor from a state in which a field has an error, a field is empty, or an
\* asynchronous validation is in flight.
C7_NoInvocationWhileBusyOrInvalid ==
  \A i \in Invocations :
    /\ ~invocations[i].busy
    /\ ~invocations[i].liveError
    /\ ~invocations[i].liveEmpty
    /\ ~invocations[i].liveValidating

\* two invocations of onSubmit in progress at once
C7_Witness ==
  /\ Len(invocations) = 2
  /\ invocations[2].busy
  /\ submissions = {1, 2}

C9_InFlightCheckDisablesSubmit ==
  network # {} => hook.isSubmitDisabled

\* the check of the value the field holds is in flight and the button is enabled
C9_Witness ==
  /\ \E p \in network : promises[p].key = CheckKey(values)
  /\ ~hook.isSubmitDisabled

\* C10: in the step in which an invocation of onSubmit resolves, every field
\* takes its default value and isSuccess becomes true.
C10_ResolveResetsAndSucceeds ==
  [][ \A i \in Invocations :
        (invocations[i].outcome = "pending" /\ invocations'[i].outcome = "resolved")
        => (values' = defaultValues /\ hook'.isSuccess)
    ]_vars

\* an invocation has resolved and the form shows a pending submission
C10_Witness ==
  /\ \E i \in Invocations : invocations[i].outcome = "resolved"
  /\ hook.isSubmitting /\ ~hook.isSuccess
  /\ values = defaultValues

Rejects(i) ==
  invocations[i].outcome = "pending" /\ invocations'[i].outcome = "rejected"

\* C11: in the step in which invocation i of onSubmit rejects with error e,
\* the record keeps its values, submitError becomes e itself, isSuccess is
\* false and onSubmit is not invoked again.
C11_RejectKeepsValuesAndSurfacesError ==
  [][ \A i \in Invocations :
        Rejects(i)
        => /\ values' = values
           /\ hook'.submitError = ThrownBy(i)
           /\ ~hook'.isSuccess
           /\ invocations' = [invocations EXCEPT ![i].outcome = "rejected"]
    ]_vars

\* the first of two overlapping invocations has rejected and the hook reports
\* no error but a pending submission
C11_Witness ==
  /\ Len(invocations) = 2 /\ invocations[2].busy
  /\ invocations[1].outcome = "rejected" /\ invocations[2].outcome = "pending"
  /\ hook.submitError = NoError /\ hook.isSubmitting

\* C12 as stated: a submit error stays as long as no field value changes and
\* is null after a step that changes a field value.
C12_ErrorStaysUntilEdit ==
  [][ hook.submitError # NoError
      => /\ values' = values => hook'.submitError = hook.submitError
         /\ values' # values => hook'.submitError = NoError
    ]_vars

\* C12 amended: a submit error stays as long as no field value changes and
\* onSubmit is not invoked again, and is null after a step that changes a
\* field value, whichever field it is.
C12_ErrorStaysUntilEditOrResubmit ==
  [][ hook.submitError # NoError
      => /\ (values' = values /\ Len(invocations') = Len(invocations))
              => hook'.submitError = hook.submitError
         /\ values' # values => hook'.submitError = NoError
         /\ \A f \in Fields : values'[f] # values[f] => hook'.submitError = NoError
    ]_vars

\* after a failed submission whose error was cleared by an edit of the
\* corporation number: the values are no longer those submitted
C12_Witness ==
  /\ Len(invocations) = 1 /\ invocations[1].outcome = "rejected"
  /\ hook.submitError = NoError /\ submitMutation.status = "idle"
  /\ invocations[1].data["firstName"] = Trim(values["firstName"])
  /\ invocations[1].data["corporationNumber"] # Trim(values["corporationNumber"])

(* ======================= claims: the submit boundary ======================= *)
NoMarkup(str) == \A n \in DOMAIN str : str[n] \notin {"<", ">"}
PlainText(str) == \A n \in DOMAIN str : str[n] \notin {"<", ">", "&"}

FormatErrors ==
  {"onboarding.errors.corporationNumberRequired", "onboarding.errors.corporationLength",
   "onboarding.errors.corporationDigitsOnly"}
Returned == ret.op = "errors"
CorpValue == arg.record["corporationNumber"]
CorpError == ErrorAt(ret.errors, "corporationNumber")

\* C14 as stated: a corporation number that is not exactly 9 characters, all
\* digits, gets a format error and no collaborator call; the collaborator is
\* called with keys of exactly 9 digits only.
C14_MalformedNeverReachesNetwork ==
  /\ \A p \in DOMAIN promises : corporationNumberRegex(promises[p].key)
  /\ (Returned /\ ~corporationNumberRegex(CorpValue))
       => (CorpError \in FormatErrors /\ promises = <<>>)

\* C14 amended: a corporation number whose trimmed value is not exactly 9
\* digits gets a format error and no collaborator call; the collaborator is
\* called with keys of exactly 9 digits only, the trimmed value.
C14_MalformedAfterTrimNeverReachesNetwork ==
  /\ \A p \in DOMAIN promises :
       corporationNumberRegex(promises[p].key) /\ promises[p].key = Trim(CorpValue)
  /\ ret.op = "awaiting" => corporationNumberRegex(Trim(CorpValue))
  /\ (Returned /\ ~corporationNumberRegex(Trim(CorpValue)))
       => (CorpError \in FormatErrors /\ promises = <<>> /\ ~ret.checked)

\* nine characters with a letter: the digits-only error and no request
C14_Witness ==
  /\ Returned
  /\ Len(CorpValue) = CORP_NUMBER_LENGTH /\ ~corporationNumberRegex(CorpValue)
  /\ CorpError = "onboarding.errors.corporationDigitsOnly"
  /\ promises = <<>>

\* the error the rules of the corporation number give to value t when the
\* check, if it is made, resolves to result
CorpRuleError(t, result) ==
  IF Len(t) = 0 THEN "onboarding.errors.corporationNumberRequired"
  ELSE IF Len(t) # CORP_NUMBER_LENGTH THEN "onboarding.errors.corporationLength"
  ELSE IF \E n \in DOMAIN t : t[n] \notin Digits
       THEN "onboarding.errors.corporationDigitsOnly"
  ELSE IF result THEN "" ELSE "onboarding.errors.invalidCorporation"

\* C15 as stated: the error of a corporation number is that of the first
\* failing rule applied to the value: required, length, digits only, then the
\* check through the cache (invalidCorporation exactly when it resolves false).
C15_FirstFailingRule ==
  Returned
  => /\ CorpError = CorpRuleError(CorpValue, ret.result)
     /\ ret.checked = corporationNumberRegex(CorpValue)

\* C15 amended: the same with every rule applied to the value trimmed of its
\* surrounding whitespace, the check being made with the trimmed value.
C15_FirstFailingRuleAfterTrim ==
  Returned
  => /\ CorpError = CorpRuleError(Trim(CorpValue), ret.result)
     /\ ret.checked = corporationNumberRegex(Trim(CorpValue))
     /\ ret.checked
          => /\ collabCalls[Trim(CorpValue)] >= 1
             /\ CacheHas(Trim(CorpValue))
                  => corporationValidationCache[Trim(CorpValue)] = ret.result
             /\ ~CacheHas(Trim(CorpValue)) => ~ret.result

\* a well-formed number the collaborator refused: invalidCorporation
C15_Witness ==
  /\ Returned /\ ret.checked /\ ~ret.result
  /\ CorpError = "onboarding.errors.invalidCorporation"
  /\ Len(promises) = 1 /\ promises[1].settled /\ ~promises[1].threw
  /\ network = {}

\* the error the rules of a name give to value t
NameRuleError(t, required) ==
  IF Len(t) = 0 THEN required
  ELSE IF Len(t) > MAX_NAME_LENGTH THEN "onboarding.errors.maxLength"
  ELSE ""

NamesFollowRules ==
  /\ ErrorAt(ret.errors, "firstName")
       = NameRuleError(Trim(arg.record["firstName"]), "onboarding.errors.firstNameRequired")
  /\ ErrorAt(ret.errors, "lastName")
       = NameRuleError(Trim(arg.record["lastName"]), "onboarding.errors.lastNameRequired")

\* C16 as stated: a name empty after trimming gets the required error, a
\* trimmed name of more than 50 characters the maxLength error, any other
\* name no error; an empty phone gets the required error and a non-empty
\* phone gets invalidPhone exactly when isValidCanadianPhone rejects it.
C16_SyncFieldRules ==
  Returned
  => /\ NamesFollowRules
     /\ ErrorAt(ret.errors, "phone") =
          IF arg.record["phone"] = <<>> THEN "onboarding.errors.phoneRequired"
          ELSE IF ~isValidCanadianPhone(arg.record["phone"])
               THEN "onboarding.errors.invalidPhone"
          ELSE ""

\* C16 amended: the same, with the phone counted as empty when it is empty
\* after trimming surrounding whitespace.
C16_SyncFieldRulesAfterTrim ==
  Returned
  => /\ NamesFollowRules
     /\ ErrorAt(ret.errors, "phone") =
          IF \A n \in DOMAIN arg.record["phone"] : arg.record["phone"][n] \in Whitespace
          THEN "onboarding.errors.phoneRequired"
          ELSE IF ~isValidCanadianPhone(arg.record["phone"])
               THEN "onboarding.errors.invalidPhone"
          ELSE ""

\* a padded name of 50 characters passes, a last name of 51 characters gets
\* maxLength, and a phone with area code 1 gets invalidPhone
C16_Witness ==
  /\ Returned
  /\ Len(arg.record["firstName"]) = MAX_NAME_LENGTH + 2
  /\ "firstName" \notin DOMAIN ret.errors
  /\ ErrorAt(ret.errors, "lastName") = "onboarding.errors.maxLength"
  /\ ErrorAt(ret.errors, "phone") = "onboarding.errors.invalidPhone"
  /\ Len(DigitsOf(arg.record["phone"])) = 11

(* ======================= claims: the phone predicate ======================= *)
OnlyDigits(str) == SelectSeq(str, LAMBDA c : c \in Digits)
AreaLead == {"2", "3", "4", "5", "6", "7", "8", "9"}

\* C17: isValidCanadianPhone(v) is true exactly when the digits of v are 11
\* digits that begin with 1 and go on with a digit in 2..9, or 10 digits that
\* begin with a digit in 2..9.
C17_CanadianPhonePredicate ==
  ret.op = "returned"
  => LET d == OnlyDigits(arg.value) IN
     ret.value = (\/ Len(d) = 11 /\ d[1] = "1" /\ d[2] \in AreaLead
                  \/ Len(d) = 10 /\ d[1] \in AreaLead)

\* eleven digits with the country code and area code 2.. are accepted
C17_Witness ==
  /\ ret.op = "returned" /\ ret.value
  /\ Len(OnlyDigits(arg.value)) = 11
  /\ arg.value[1] = "+"

(* ======================= claims: the masks ======================= *)
RoundTripped == arg.op = "mask" /\ arg.mask \in BuiltInPresets /\ ret.op = "parsed"
                /\ ret.call = "roundTrip"
Cap(str, n) == IF Len(str) <= n THEN str ELSE SubSeq(str, 1, n)
Keep(str, alphabet) == SelectSeq(str, LAMBDA c : c \in alphabet)
Letters == {LowerLetters[n] : n \in DOMAIN LowerLetters}
             \cup {UpperLetters[n] : n \in DOMAIN UpperLetters}
Upper(str) == [i \in DOMAIN str |-> ToUpperCase(str[i])]

\* the raw alphabet of a preset, with and without the + of the phone's raw
\* format +1XXXXXXXXXX
RawAlphabets(mask) ==
  CASE mask = "phone-ca" -> {Digits, Digits \cup {"+"}}
    [] mask = "postal-code-ca" -> {Digits \cup Letters}
    [] OTHER -> {Digits}

\* C18 as stated: parse(format(x)) is x without the characters outside the
\* preset's raw alphabet, cut to the preset's maximum length, and a second
\* round trip gives the same.
C18_RoundTripIsStripAndCap ==
  RoundTripped
  => \E alphabet \in RawAlphabets(arg.mask) :
       ret.value = Cap(Keep(arg.value, alphabet), MaxLengthOf(arg.mask))

\* the raw form of a value: its digits (its letters and digits in upper case
\* for postal-code-ca) cut to the maximum length, after a + for phone-ca when
\* there are any
Normalize(mask, x) ==
  LET kept == IF mask = "postal-code-ca" THEN Upper(Keep(x, Digits \cup Letters))
              ELSE Keep(x, Digits)
      capped == Cap(kept, MaxLengthOf(mask))
  IN IF mask = "phone-ca" /\ capped # <<>> THEN <<"+">> \o capped ELSE capped

\* C18 amended: parse(format(x)) is the raw form of x, where the maximum
\* length counts the characters after the + of phone-ca and postal letters
\* come out in upper case; a second round trip gives the same.
C18_RoundTripIsNormalize ==
  RoundTripped => ret.value = Normalize(arg.mask, arg.value)

\* a second round trip of a credit-card value of more than 16 digits with
\* other characters among them
C18_Witness ==
  /\ RoundTripped /\ ret.times = 2
  /\ arg.mask = "credit-card"
  /\ Len(Keep(arg.value, Digits)) > 16
  /\ Len(arg.value) > Len(Keep(arg.value, Digits))

\* the display of a phone number with a place D for every digit
PhoneTemplate == <<"+", "D", " ", "(", "D", "D", "D", ")", " ",
                   "D", "D", "D", "-", "D", "D", "D", "D">>

\* the template filled with digits from the left and cut after the last one
RECURSIVE Filled(_, _)
Filled(template, digits) ==
  IF digits = <<>> \/ template = <<>> THEN <<>>
  ELSE IF Head(template) = "D"
       THEN <<Head(digits)>> \o Filled(Tail(template), Tail(digits))
       ELSE <<Head(template)>> \o Filled(Tail(template), digits)

IsPrefix(s, t) == Len(s) <= Len(t) /\ SubSeq(t, 1, Len(s)) = s

\* a display of phone-ca for at most ten digits and nothing else
PhoneDisplayed(a, r) ==
  /\ a.op = "mask" /\ a.mask = "phone-ca"
  /\ r.op = "formatted"
  /\ Keep(a.value, Digits) = a.value
  /\ Len(a.value) <= 10

\* C19: when the phone-ca format has displayed at most ten digits, the
\* display is +D, +D (DDD, +D (DDD) DDD or +D (DDD) DDD-DDDD filled up to its
\* last digit, and the display before a digit was added is a prefix of the
\* display after it.
C19_IncrementalPhoneFormat ==
  [][PhoneDisplayed(arg', ret')
     => /\ ret'.value = Filled(PhoneTemplate, arg'.value)
        /\ (PhoneDisplayed(arg, ret) /\ arg'.value # arg.value)
           => IsPrefix(ret.value, ret'.value)]_vars

\* ten digits typed one at a time
C19_Witness ==
  /\ PhoneDisplayed(arg, ret)
  /\ ret.typed = 10 /\ Len(arg.value) = 10
  /\ Len(ret.value) = 16 /\ ret.value[13] = "-"

\* a call of parseWithMask on a built-in preset that has ended
ParseEnded == arg.op = "mask" /\ arg.mask \in BuiltInPresets
              /\ ret.op # "none" /\ ret.call = "parse"

\* the characters the displays add around the raw characters
FormattingChars == {" ", "(", ")", "-", "/"}

\* the raw characters of a preset
RawChars(mask) ==
  IF mask = "postal-code-ca"
  THEN Digits \cup {UpperLetters[n] : n \in DOMAIN UpperLetters}
  ELSE Digits

\* C20 as stated: parse(s) on a built-in preset does not throw, has no
\* formatting character and is at most getMaskMaxLength long.
C20_ParseWithinMaxLength ==
  ParseEnded
  => /\ ret.op = "parsed"
     /\ \A i \in DOMAIN ret.value : ret.value[i] \notin FormattingChars
     /\ Len(ret.value) <= getMaskMaxLength(Named(arg.mask)).value

\* what parse returns without the + that phone-ca puts first
AfterPlus(mask, raw) ==
  IF mask = "phone-ca" /\ raw # <<>> /\ Head(raw) = "+" THEN Tail(raw) ELSE raw

\* C20 amended: parse(s) on a built-in preset does not throw, consists of raw
\* characters only (after one leading + for phone-ca), and these are at most
\* getMaskMaxLength many: 11 digits after the + for phone-ca, 16, 6 and 8
\* characters for credit-card, postal-code-ca and date.
C20_ParseWithinMaxLengthAfterPlus ==
  ParseEnded
  => /\ ret.op = "parsed"
     /\ LET raw == AfterPlus(arg.mask, ret.value) IN
        /\ \A i \in DOMAIN raw : raw[i] \in RawChars(arg.mask)
        /\ Len(raw) <= getMaskMaxLength(Named(arg.mask)).value
        /\ arg.mask = "phone-ca" /\ ret.value # <<>> => Head(ret.value) = "+"

\* a phone display with formatting characters and more than eleven digits,
\* parsed to + and eleven digits
C20_Witness ==
  /\ ParseEnded /\ ret.op = "parsed"
  /\ arg.mask = "phone-ca"
  /\ \E i \in DOMAIN arg.value : arg.value[i] \in FormattingChars
  /\ Len(Keep(arg.value, Digits)) > 11
  /\ Len(ret.value) = 12 /\ Head(ret.value) = "+"

(* ======================= claims: the mask registry ======================= *)
LookupEnded == arg.op = "registry" /\ ret.op # "none" /\ ret.call # "registerMaskPreset"

\* the names registered: those the object was written with and those given
\* to registerMaskPreset
RegisteredNames ==
  BuiltInPresets \cup {arg.calls[i].name : i \in DOMAIN arg.calls}

\* C21: formatWithMask, parseWithMask, getMaskPlaceholder and
\* getMaskMaxLength throw the unknown-preset error with the name when the
\* mask is a name that is not registered, and do not throw when it is a
\* registered name or an inline configuration.
C21_UnknownPresetFails ==
  LookupEnded
  => IF ret.mask.typeof = "string" /\ ret.mask.name \notin RegisteredNames
     THEN ret = [call |-> ret.call, mask |-> ret.mask] @@ Threw(ret.mask.name)
     ELSE ret.op # "threw"

\* getMaskPlaceholder('constructor') returns undefined where no such preset
\* has been registered
C21_Witness ==
  /\ LookupEnded
  /\ ret.call = "getMaskPlaceholder"
  /\ ret.mask = Named("constructor")
  /\ "constructor" \notin RegisteredNames
  /\ ret.op = "placeholder" /\ ~ret.defined

\* the calls that registered a name, and the configuration of the last one
CallsOf(name) == {i \in DOMAIN arg.calls : arg.calls[i].name = name}
LastRegistered(name) ==
  arg.calls[CHOOSE i \in CallsOf(name) : \A j \in CallsOf(name) : j <= i].config

\* C22: after any registerMaskPreset calls a registered name resolves to the
\* configuration registered last under it, a built-in preset that was not
\* registered again resolves to its entry, and the registered names are the
\* built-in ones and each name given to registerMaskPreset, counted once.
C22_LastWriteWins ==
  arg.op = "registry"
  => /\ \A name \in RegisteredNames :
          getMaskConfig(Named(name)) =
            [op |-> "config",
             config |-> IF CallsOf(name) # {} THEN LastRegistered(name)
                        ELSE BuiltInEntry(name)]
     /\ getRegisteredMaskPresets = RegisteredNames

\* a preset registered under __proto__ resolves but is not among the names
C22_Witness ==
  /\ arg.op = "registry"
  /\ CallsOf("__proto__") # {}
  /\ getMaskConfig(Named("__proto__")).config = LastRegistered("__proto__")
  /\ "__proto__" \notin getRegisteredMaskPresets
  /\ Cardinality(getRegisteredMaskPresets) = Cardinality(BuiltInPresets)

(* ======================= claims: the submission call ======================= *)
Submitted == arg.op = "submitOnboardingForm" /\ ret.op # "none"

\* C23: submitOnboardingForm resolves for every response of the transport
\* with a non-error status, whatever its body, and rejects for every
\* response with an error status and every network failure.
C23_ResolvesOnNonErrorResponse ==
  Submitted
  => (ret.op = "resolved"
      <=> arg.transport.kind = "response" /\ arg.transport.status \in 200..299)

\* a response with status 200 whose body is the JSON value null is rejected
C23_Witness ==
  /\ Submitted
  /\ arg.transport.kind = "response" /\ arg.transport.status = 200
  /\ arg.transport.body.type = "null"
  /\ ret = Rejected("API response validation failed")

(* ======================= claims: the in-flight map ======================= *)
\* caller c makes a call with key k in this step
Calls(c, k) == callers[c].st = "idle" /\ callers'[c].st # "idle" /\ callers'[c].key = k

\* C24: the step in which the check of a key settles, with success or with
\* failure, takes the key out of the in-flight map, so the map only holds
\* unsettled requests; a call made after a settlement of its key never gets
\* a finished request: with the key cached it is answered from the cache
\* without a collaborator call, and with the key not cached and nothing in
\* flight it starts a new collaborator call.
C24_SettledKeyLeavesInFlightMap ==
  [][ /\ \A p \in network \ network' :
           promises[p].key \notin DOMAIN pendingValidations'
      /\ \A k \in DOMAIN pendingValidations' : pendingValidations'[k] \in network'
      /\ \A c \in Callers, k \in Keys :
           (Calls(c, k) /\ settledCount[k] > 0)
           => /\ callers'[c].promise \in 1..Len(promises)
                   => ~promises[callers'[c].promise].settled
              /\ k \in DOMAIN corporationValidationCache
                   => /\ callers'[c].st = "done"
                      /\ callers'[c].result = corporationValidationCache[k]
                      /\ collabCalls' = collabCalls
              /\ (k \notin DOMAIN corporationValidationCache /\ InFlight(k) = {})
                   => /\ callers'[c].promise = Len(promises) + 1
                      /\ collabCalls'[k] = collabCalls[k] + 1
    ]_vars

\* after a failed check of a key a call with that key waits on a new request,
\* which is the one the in-flight map holds
C24_Witness ==
  \E c \in Callers :
    /\ Len(promises) >= 2 /\ promises[1].threw
    /\ callers[c].st = "waiting" /\ callers[c].promise = 2
    /\ callers[c].key = promises[1].key
    /\ PendingHas(callers[c].key) /\ pendingValidations[callers[c].key] = 2

(* ======================= claims: the phone field ======================= *)
\* C25: every non-empty value PhoneInput gives to onChange starts with +1.
C25_PhoneInputPrependsCountryCode ==
  (arg.op = "phoneField" /\ arg.component = "PhoneInput" /\ ret.op = "onChange"
     /\ ret.value # <<>>)
  => Len(ret.value) >= 2 /\ ret.value[1] = "+" /\ ret.value[2] = "1"

\* PhoneInput gives +4 to onChange for the key 4
C25_Witness ==
  /\ arg.op = "phoneField" /\ arg.component = "PhoneInput"
  /\ ret.op = "onChange"
  /\ ret.input = <<"4">>
  /\ ret.value = <<"+", "4">>

\* what the profile endpoint accepts: ^\+1[2-9]\d{9}$
EndpointAccepts(phone) ==
  /\ Len(phone) = 12
  /\ phone[1] = "+" /\ phone[2] = "1" /\ phone[3] \in AreaLead
  /\ \A i \in 4..12 : phone[i] \in Digits

\* C29: a phone entered through the masked phone field that passes the
\* validation is delivered as +1 and ten digits, the first of them in 2..9.
C29_DeliveredPhoneHasCountryCode ==
  (arg.op = "phoneField" /\ arg.component = "MaskedInput" /\ ret.op = "delivered")
  => EndpointAccepts(ret.phone)

\* ten digits typed without the country code are validated and delivered as
\* + and the ten digits
C29_Witness ==
  /\ arg.op = "phoneField" /\ arg.component = "MaskedInput"
  /\ ret.op = "delivered"
  /\ Len(ret.phone) = 11 /\ ret.phone[1] = "+" /\ ret.phone[2] = "4"

(* ======================= claims: a submission that fails late ======================= *)
\* C26: when an invocation of onSubmit rejects after a field was edited
\* while it was pending, submitError becomes its error in that step; and a
\* submit error only becomes null in a step that changes a field value.
C26_LateFailureStaysVisible ==
  [][ /\ \A i \in Invocations :
           (Rejects(i) /\ invocations[i].edited) => hook'.submitError = ThrownBy(i)
      /\ (hook.submitError # NoError /\ hook'.submitError = NoError)
           => values' # values
    ]_vars

\* an invocation that was edited while pending has rejected while a second
\* one is pending, and the hook shows no error
C26_Witness ==
  /\ Len(invocations) = 2
  /\ invocations[1].edited /\ invocations[1].outcome = "rejected"
  /\ invocations[2].outcome = "pending"
  /\ hook.submitError = NoError
  /\ previousValuesRef = values

(* ======================= claims: the flags of the hook ======================= *)
\* the flags of the last render that hold
FlagsHeld ==
  {flag \in {"isSubmitting", "isSuccess", "submitError"} :
     CASE flag = "isSubmitting" -> hook.isSubmitting
       [] flag = "isSuccess" -> hook.isSuccess
       [] flag = "submitError" -> hook.submitError # NoError}

\* C27: at most one of isSubmitting, isSuccess and a non-null submitError
\* holds in every state, and none of them holds in the initial state, nor
\* in any state before onSubmit was first invoked.
C27_FlagsExclusive ==
  /\ Cardinality(FlagsHeld) <= 1
  /\ invocations = <<>> => FlagsHeld = {}

\* a submission has succeeded after an earlier one failed
C27_Witness ==
  /\ Len(invocations) = 2
  /\ invocations[1].outcome = "rejected" /\ invocations[2].outcome = "resolved"
  /\ ~invocations[2].busy
  /\ FlagsHeld = {"isSuccess"}

(* ======================= claims: the record delivered ======================= *)
\* C28: every field of a record given to onSubmit is a non-empty string.
C28_DeliveredFieldsNonEmpty ==
  (arg.op = "handleSubmit" /\ ret.op = "onSubmit")
  => \A f \in DOMAIN ret.data : ret.data[f] # <<>>

\* the first name <b> passes the validation and is delivered empty
C28_Witness ==
  /\ arg.op = "handleSubmit" /\ ret.op = "onSubmit"
  /\ arg.record["firstName"] = <<"<", "b", ">">>
  /\ ret.data["firstName"] = <<>>
  /\ ret.data["phone"] = PhoneOk

(* ======================= claims: every call resolves ======================= *)
\* C30: when the collaborator settles every request, every call that waits
\* gets its boolean, and whenever no request is outstanding the in-flight
\* map is empty.
C30_EveryCallResolves ==
  /\ \A c \in Callers :
       (callers[c].st = "waiting")
         ~> (callers[c].st = "done" /\ callers[c].result \in BOOLEAN)
  /\ [](network = {} => DOMAIN pendingValidations = {})

\* every request the bound allows has settled, one of them with a failure,
\* and every caller has its result
C30_Witness ==
  /\ Len(promises) = MaxRequests /\ network = {}
  /\ \E p \in 1..Len(promises) : promises[p].threw
  /\ \A c \in Callers : callers[c].st = "done" /\ ~callers[c].hit
  /\ DOMAIN pendingValidations = {}
====
